---- MODULE Spec2Model ----
(***************************************************************************)
(* A model of compfipy's Asset class (src/compfipy/asset.py): the price    *)
(* data of one Asset and the indicator / statistics operations computed    *)
(* from it.  Sequences are 1-based here: bar i of the model is bar i-1 of  *)
(* the Python code.  Floating-point values are modelled as exact rationals *)
(* extended with NaN, +Inf and -Inf, with the IEEE-754 rules numpy/pandas  *)
(* apply to them (x/0 = +-Inf, 0/0 = NaN, NaN compares false).             *)
(***************************************************************************)
EXTENDS Integers, Sequences, FiniteSets, TLC

\* ------------------------------------------------------------------------
\* Bounds of the model
\* ------------------------------------------------------------------------
MaxBarsDD == 4
MaxPriceDD == 3
MaxDatesDD == 5
MaxBarsZZ == 4
MaxPriceZZ == 3
MaxBarsRSI == 5
MaxPriceRSI == 3
MaxWindowRSI == 3
MaxBarsSAR == 4
MaxPriceSAR == 2
MaxBarsStats == 4
MaxBarsTrend == 3
MaxPriceTrend == 2
MaxWindowAroon == 3
MaxWindowAdx == 2
MaxBarsAdx == 3
MaxPriceAdx == 3
MaxBarsNew == 2
MaxPriceNew == 2
MaxBarsFrame == 4
MaxCallsFrame == 2
MaxPriceStats == 2

\* ------------------------------------------------------------------------
\* Constants of compfipy.util
\* ------------------------------------------------------------------------
MONTHS_IN_YEAR == 12
DAYS_IN_YEAR == 365
DAYS_IN_TRADING_YEAR == 252

\* ------------------------------------------------------------------------
\* Floating-point values
\* ------------------------------------------------------------------------
Abs(x) == IF x < 0 THEN -x ELSE x

RECURSIVE GCD(_, _)
GCD(a, b) == IF b = 0 THEN a ELSE GCD(b, a % b)

\* the rational n/d in lowest terms, d > 0
Rat(n, d) ==
    LET g == GCD(Abs(n), Abs(d))
        s == IF d < 0 THEN -1 ELSE 1
    IN  [k |-> "num", n |-> (s * n) \div g, d |-> (s * d) \div g]

Int2F(i) == [k |-> "num", n |-> i, d |-> 1]
NaN == [k |-> "nan", n |-> 0, d |-> 1]
PInf == [k |-> "inf", n |-> 1, d |-> 1]
NInf == [k |-> "ninf", n |-> -1, d |-> 1]
Zero == Int2F(0)
One == Int2F(1)

IsNaN(x) == x.k = "nan"
IsNum(x) == x.k = "num"
IsFinite(x) == x.k = "num"
\* sign of a non-NaN value: -1, 0, 1
Sgn(x) == IF x.n > 0 THEN 1 ELSE IF x.n < 0 THEN -1 ELSE 0

Neg(x) ==
    CASE x.k = "num" -> [x EXCEPT !.n = -x.n]
      [] x.k = "inf" -> NInf
      [] x.k = "ninf" -> PInf
      [] OTHER -> NaN

Add(x, y) ==
    CASE IsNaN(x) \/ IsNaN(y) -> NaN
      [] IsNum(x) /\ IsNum(y) ->
            LET g == GCD(x.d, y.d)
            IN  Rat(x.n * (y.d \div g) + y.n * (x.d \div g),
                    (x.d \div g) * y.d)
      [] IsNum(x) -> y
      [] IsNum(y) -> x
      [] x = y -> x
      [] OTHER -> NaN

Sub(x, y) == Add(x, Neg(y))

Mul(x, y) ==
    CASE IsNaN(x) \/ IsNaN(y) -> NaN
      [] IsNum(x) /\ IsNum(y) ->
            LET g == GCD(Abs(x.n), y.d)
                h == GCD(Abs(y.n), x.d)
            IN  Rat((x.n \div g) * (y.n \div h), (x.d \div h) * (y.d \div g))
      [] Sgn(x) * Sgn(y) > 0 -> PInf
      [] Sgn(x) * Sgn(y) < 0 -> NInf
      [] OTHER -> NaN

\* numpy / pandas float division: no exception, x/0 = +-Inf, 0/0 = NaN
Div(x, y) ==
    CASE IsNaN(x) \/ IsNaN(y) -> NaN
      [] IsNum(x) /\ IsNum(y) ->
            IF y.n # 0 THEN Rat(x.n * y.d, x.d * y.n)
            ELSE IF x.n > 0 THEN PInf
            ELSE IF x.n < 0 THEN NInf
            ELSE NaN
      [] IsNum(x) -> Zero
      [] IsNum(y) -> IF Sgn(x) * (IF y.n < 0 THEN -1 ELSE 1) > 0 THEN PInf ELSE NInf
      [] OTHER -> NaN

\* comparisons: any comparison with NaN is false
Lt(x, y) ==
    CASE IsNaN(x) \/ IsNaN(y) -> FALSE
      [] IsNum(x) /\ IsNum(y) -> x.n * y.d < y.n * x.d
      [] x = y -> FALSE
      [] OTHER -> x.k = "ninf" \/ y.k = "inf"

Gt(x, y) == Lt(y, x)
Eq(x, y) == ~IsNaN(x) /\ ~IsNaN(y) /\ x = y
Le(x, y) == Lt(x, y) \/ Eq(x, y)
Ge(x, y) == Le(y, x)

\* np.max / np.min of two values (NaN propagates)
FMax(x, y) == IF IsNaN(x) \/ IsNaN(y) THEN NaN ELSE IF Lt(x, y) THEN y ELSE x
FMin(x, y) == IF IsNaN(x) \/ IsNaN(y) THEN NaN ELSE IF Lt(y, x) THEN y ELSE x
FAbs(x) == IF IsNaN(x) THEN NaN ELSE IF Sgn(x) < 0 THEN Neg(x) ELSE x

\* ------------------------------------------------------------------------
\* Timestamps of the index
\* ------------------------------------------------------------------------
Date(y, m, d) == [y |-> y, m |-> m, d |-> d]

IsLeap(y) == y % 4 = 0 /\ (y % 100 # 0 \/ y % 400 = 0)
DaysInMonth(y, m) ==
    IF m = 2 THEN (IF IsLeap(y) THEN 29 ELSE 28)
    ELSE IF m \in {4, 6, 9, 11} THEN 30 ELSE 31

RECURSIVE DaysBeforeMonth(_, _)
DaysBeforeMonth(y, m) ==
    IF m = 1 THEN 0 ELSE DaysBeforeMonth(y, m - 1) + DaysInMonth(y, m - 1)

\* the ordinal of a date (days since 0001-01-01, as datetime.toordinal)
DayNum(dt) ==
    LET p == dt.y - 1
    IN  365 * p + (p \div 4) - (p \div 100) + (p \div 400)
        + DaysBeforeMonth(dt.y, dt.m) + dt.d

\* (mutant) the difference taken the wrong way round
DaysBetweenReversed(s, e) == DayNum(s) - DayNum(e)

\* (e - s).days
DaysBetween(s, e) == DayNum(e) - DayNum(s)
DateLt(a, b) == DayNum(a) < DayNum(b)

\* the dates the bars of the modelled series are drawn from, in order
Calendar ==
    << Date(2001, 9, 14), Date(2001, 10, 31), Date(2001, 11, 30),
       Date(2001, 12, 27), Date(2001, 12, 28), Date(2001, 12, 29),
       Date(2001, 12, 31), Date(2002, 1, 2), Date(2003, 6, 30),
       Date(2004, 2, 27) >>

\* strictly increasing sequences of n positions in lo..hi
RECURSIVE IncSeqs(_, _, _)
IncSeqs(n, lo, hi) ==
    IF n = 0 THEN {<<>>}
    ELSE UNION { { <<p>> \o s : s \in IncSeqs(n - 1, p + 1, hi) } : p \in lo..hi }

\* the indexes (strictly increasing timestamps) of n bars among the first
\* K dates of the calendar
DateSeqs(n, K) ==
    { [i \in 1..n |-> Calendar[ps[i]]] : ps \in IncSeqs(n, 1, K) }

\* ------------------------------------------------------------------------
\* State
\* ------------------------------------------------------------------------
VARIABLES
    made,       \* whether Asset(data) has been constructed
    idx,        \* self.data.index : the timestamps of the bars
    open,       \* self.data['Open']
    volume,     \* self.data['Volume']
    close,      \* self.data['Close']
    high,       \* self.data['High']
    low,        \* self.data['Low']
    dd,         \* the last return value of drawdown()
    ddinfo,     \* the last outcome of drawdown_info()
    zz,         \* the last return value of zigzag(percent)
    rsi,        \* the last outcome of relative_strength_index(n)
    psar,       \* the call of parabolic_sar() in progress, or its result
    ind,        \* the last return value of a volume indicator
                \* (money_flow_index, negative_volume_index,
                \* on_balance_volume)
    stats,      \* self.stats : the report of calc_stats()
    cs,         \* the call of calc_stats() in progress: its position, its
                \* argument, what it raised, the tiers whose block it ran
    waiting,    \* a second call of calc_stats() on the same Asset, made by
                \* another thread that is waiting for the interpreter
    kept,       \* the report the caller took from the last call of
                \* calc_stats() that returned, with the argument of that call
    trend       \* the last return value of aroon(n) or of
                \* average_directional_index(n), with its intermediate series

dataVars == <<idx, open, high, low, close, volume>>
vars == <<made, idx, open, high, low, close, volume, dd, ddinfo, zz, rsi, psar,
          ind, stats, cs, waiting, kept, trend>>

number_of_days == Len(close)

\* no call made yet
NoSeries == [called |-> FALSE, val |-> <<>>]
NoInfo == [called |-> FALSE, raised |-> "none", start |-> <<>>, end |-> <<>>,
           days |-> <<>>, drawdown |-> <<>>]
NoZigzag == [called |-> FALSE, percent |-> Zero, raw |-> <<>>, val |-> <<>>]
NoRsi == [called |-> FALSE, n |-> 0, raised |-> "none", avg_gain |-> <<>>,
          avg_loss |-> <<>>, val |-> <<>>]
NoSar == [pc |-> "idle", i |-> 0, ep |-> Zero, af |-> Zero, sar |-> Zero,
          up |-> TRUE, r_sar |-> <<>>, f_sar |-> <<>>,
          step_r |-> Zero, step_f |-> Zero, max_af_r |-> Zero,
          max_af_f |-> Zero, trace |-> <<>>]

\* a value that is a finite real number the model does not evaluate (a
\* square root, a power, a moment ratio): the function and its arguments
Sym(f, args) == [k |-> "sym", n |-> 0, d |-> 1, f |-> f, args |-> args]

\* the metrics of the report, by the tier of calc_stats that computes them
Tier1Metrics == {"daily_mean", "daily_vol", "daily_sharpe", "best_day",
                 "worst_day", "total_return", "cagr", "incep", "max_drawdown",
                 "avg_drawdown", "avg_drawdown_days", "daily_skew",
                 "daily_kurt"}
Tier2Metrics == {"monthly_mean", "monthly_vol", "monthly_sharpe", "best_month",
                 "worst_month", "mtd", "pos_month_perc", "avg_up_month",
                 "avg_down_month"}
Tier3Metrics == {"three_month"}
Tier4Metrics == {"monthly_skew", "monthly_kurt", "six_month"}
Tier5Metrics == {"ytd", "one_year", "yearly_mean", "yearly_vol",
                 "yearly_sharpe", "best_year", "worst_year", "three_year",
                 "win_year_perc", "twelve_month_win_perc"}
Tier6Metrics == {"yearly_skew", "yearly_kurt", "five_year", "ten_year"}
Metrics == Tier1Metrics \cup Tier2Metrics \cup Tier3Metrics \cup Tier4Metrics
           \cup Tier5Metrics \cup Tier6Metrics

\* (mutant) the metrics initialised to 0.0
EmptyStatsZeroed(index, rf) ==
    [f \in Metrics |-> Zero] @@
    [built |-> TRUE, name |-> "asset", start |-> index[1],
     end |-> index[Len(index)], market_cap |-> One,
     yearly_risk_free_return |-> rf, return_table |-> {}]

\* lines 211-258: the report as calc_stats first builds it, every metric
\* np.nan and the return table empty (market_cap is 1.0, the default)
EmptyStats(index, rf) ==
    [f \in Metrics |-> NaN] @@
    [built |-> TRUE, name |-> "asset", start |-> index[1],
     end |-> index[Len(index)], market_cap |-> One,
     yearly_risk_free_return |-> rf, return_table |-> {}]

\* line 187: self.stats = {}
NoStats == [EmptyStats(<<Calendar[1]>>, Zero) EXCEPT !.built = FALSE]

\* no report taken yet
NoReport == [called |-> FALSE, rf |-> Zero, report |-> NoStats]

\* no call of calc_stats made yet
NoCall == [pc |-> "idle", rf |-> Zero, raised |-> "none", tiers |-> {}]

\* no trend indicator called yet
NoTrend == [op |-> "none", n |-> 0]

\* no volume indicator called yet
NoInd == [op |-> "none", n |-> 0, val |-> <<>>, signal |-> <<>>]

\* a volume column of n bars, the same volume at every bar
PlainVolume(n) == [i \in 1..n |-> Int2F(100)]

\* the consecutive timestamps of n bars
PlainIndex(n) == [i \in 1..n |-> Calendar[i]]

\* ------------------------------------------------------------------------
\* drawdown()
\* ------------------------------------------------------------------------
\* Series.ffill(): a missing value takes the last value before it
RECURSIVE Ffill(_)
Ffill(s) ==
    IF Len(s) <= 1 THEN s
    ELSE LET f == Ffill(SubSeq(s, 1, Len(s) - 1))
             x == s[Len(s)]
         IN  Append(f, IF IsNaN(x) THEN f[Len(f)] ELSE x)

\* draw_down[np.isnan(draw_down)] = -np.Inf
NanToNegInf(s) == [i \in 1..Len(s) |-> IF IsNaN(s[i]) THEN NInf ELSE s[i]]

\* Series.expanding().max()
RECURSIVE ExpandingMax(_)
ExpandingMax(s) ==
    IF Len(s) <= 1 THEN s
    ELSE LET f == ExpandingMax(SubSeq(s, 1, Len(s) - 1))
         IN  Append(f, FMax(f[Len(f)], s[Len(s)]))

\* (mutant) the lowest low to date taken for the highest high
HighestHighAsMin(s) ==
    [i \in 1..Len(s) |-> CHOOSE x \in {s[j] : j \in 1..i} :
                            \A j \in 1..i : ~Lt(s[j], x)]

\* highest_high = draw_down.expanding().max()
HighestHigh(s) == ExpandingMax(s)

drawdown(c) ==
    LET filled == NanToNegInf(Ffill(c))
        highest_high == HighestHigh(filled)
    IN  [i \in 1..Len(c) |-> Sub(Div(filled[i], highest_high[i]), One)]

CallDrawdown ==
    /\ dd' = [called |-> TRUE, val |-> drawdown(close)]
    /\ UNCHANGED <<made, waiting, kept, trend, dataVars, ind, ddinfo, zz, rsi,
                   psar, stats, cs>>

\* ------------------------------------------------------------------------
\* drawdown_info()
\* ------------------------------------------------------------------------
\* the positions of a boolean series that are True, in order
RECURSIVE TruePositions(_, _)
TruePositions(b, n) ==
    IF n = 0 THEN <<>>
    ELSE IF b[n] THEN Append(TruePositions(b, n - 1), n)
    ELSE TruePositions(b, n - 1)

\* Series.min() over the label slice [s:e], both ends included, NaN skipped
RECURSIVE SliceMin(_, _, _)
SliceMin(s, a, b) ==
    IF a > b THEN NaN
    ELSE LET rest == SliceMin(s, a + 1, b)
         IN  IF IsNaN(s[a]) THEN rest
             ELSE IF IsNaN(rest) THEN s[a]
             ELSE FMin(s[a], rest)

\* start = ~is_zero & is_zero.shift(1): the shifted series is missing at the
\* first bar, which the boolean operator takes as False
StartPositions(is_zero) ==
    TruePositions([i \in 1..Len(is_zero) |->
                      i > 1 /\ ~is_zero[i] /\ is_zero[i - 1]], Len(is_zero))

\* end = is_zero & (~is_zero).shift(1)
EndPositions(is_zero) ==
    TruePositions([i \in 1..Len(is_zero) |->
                      i > 1 /\ is_zero[i] /\ ~is_zero[i - 1]], Len(is_zero))

\* (mutant) the depth taken over the bars before the end bar only
EpisodeDepthOpen(drawdown_, s, e) == SliceMin(drawdown_, s, e - 1)

\* (mutant) the depth read at the end bar of the episode
EpisodeDepthAtEnd(drawdown_, s, e) == drawdown_[e]

\* the depth of one episode: drawdown[s:e].min()
EpisodeDepth(drawdown_, s, e) == SliceMin(drawdown_, s, e)

drawdown_info(c, index) ==
    LET drawdown_ == drawdown(c)
        n == Len(c)
        is_zero == [i \in 1..n |-> Eq(drawdown_[i], Zero)]
        start0 == StartPositions(is_zero)
        end0 == EndPositions(is_zero)
        \* handle no ending
        end1 == IF Len(end0) = 0 THEN <<n>> ELSE end0
    IN  IF Len(start0) = 0
        THEN \* start[0] on an empty list
             [NoInfo EXCEPT !.called = TRUE, !.raised = "IndexError"]
        ELSE
        LET \* handle starting in drawdown
            start == IF start0[1] > end1[1] THEN <<1>> \o start0 ELSE start0
            \* handle finishing with drawdown
            end == IF start[Len(start)] > end1[Len(end1)]
                   THEN Append(end1, n) ELSE end1
            rows == IF Len(start) < Len(end) THEN Len(start) ELSE Len(end)
        IN  IF Len(start) # Len(end)
            THEN \* DataFrame of columns of unequal length
                 [NoInfo EXCEPT !.called = TRUE, !.raised = "ValueError"]
            ELSE [called |-> TRUE, raised |-> "none",
                  start |-> [r \in 1..rows |-> index[start[r]]],
                  end |-> [r \in 1..rows |-> index[end[r]]],
                  days |-> [r \in 1..rows |->
                               DaysBetween(index[start[r]], index[end[r]])],
                  drawdown |-> [r \in 1..rows |->
                               EpisodeDepth(drawdown_, start[r], end[r])]]

CallDrawdownInfo ==
    /\ ddinfo' = drawdown_info(close, idx)
    /\ UNCHANGED <<made, waiting, kept, trend, dataVars, ind, dd, zz, rsi,
                   psar, stats, cs>>

\* ------------------------------------------------------------------------
\* Specification of the drawdown analyzer: an Asset built from a close
\* series (missing closes allowed), then drawdown() / drawdown_info() calls
\* ------------------------------------------------------------------------
ClosesDD == {Int2F(p) : p \in 1..MaxPriceDD} \cup {NaN}

InitDD ==
    /\ \E n \in 1..MaxBarsDD :
          /\ idx \in DateSeqs(n, MaxDatesDD)
          /\ close \in [1..n -> ClosesDD]
    /\ high = close
    /\ low = close
    /\ dd = NoSeries
    /\ ddinfo = NoInfo
    /\ zz = NoZigzag
    /\ rsi = NoRsi
    /\ psar = NoSar
    /\ stats = NoStats
    /\ cs = NoCall
    /\ waiting = NoCall
    /\ kept = NoReport
    /\ trend = NoTrend
    /\ open = close
    /\ volume = PlainVolume(Len(close))
    /\ ind = NoInd
    /\ made = TRUE

NextDD == CallDrawdown \/ CallDrawdownInfo

SpecDD == InitDD /\ [][NextDD]_vars

\* ------------------------------------------------------------------------
\* zigzag(percent)
\* ------------------------------------------------------------------------
\* (mutant) a change equal to the threshold makes a pivot too
ExceedsOrEqual(change, threshold) == Ge(change, threshold)

\* np.abs(...) > percent / 100.0
Exceeds(change, threshold) == Gt(change, threshold)

\* the loop of zigzag over bars 2..n: the series before interpolation, a
\* pivot holding its close and every other bar missing; lastzig is the value
\* of the last pivot
RECURSIVE ZigzagMarks(_, _, _)
ZigzagMarks(x, n, percent) ==
    IF n = 1 THEN [raw |-> <<x[1]>>, lastzig |-> x[1]]
    ELSE LET prev == ZigzagMarks(x, n - 1, percent)
             change == FAbs(Div(Sub(prev.lastzig, x[n]), x[n]))
         IN  IF Exceeds(change, Div(percent, Int2F(100)))
             THEN [raw |-> Append(prev.raw, x[n]), lastzig |-> x[n]]
             ELSE [raw |-> Append(prev.raw, NaN), lastzig |-> prev.lastzig]

\* (mutant) the missing bars left as they are
InterpolateNothing(s) == s

\* pd.Series.interpolate(): linear in the bar position between the valid
\* values around a missing run; a trailing run keeps the last valid value; a
\* leading run stays missing
Interpolate(s) ==
    [i \in 1..Len(s) |->
        IF ~IsNaN(s[i]) THEN s[i]
        ELSE LET before == {j \in 1..(i - 1) : ~IsNaN(s[j])}
                 after == {j \in (i + 1)..Len(s) : ~IsNaN(s[j])}
             IN  IF before = {} THEN NaN
                 ELSE LET a == CHOOSE j \in before : \A k \in before : k <= j
                      IN  IF after = {} THEN s[a]
                          ELSE LET b == CHOOSE j \in after : \A k \in after : j <= k
                               IN  Add(s[a], Mul(Sub(s[b], s[a]),
                                                 Rat(i - a, b - a)))]

zigzag(x, percent) ==
    LET marks == ZigzagMarks(x, Len(x), percent)
    IN  [called |-> TRUE, percent |-> percent, raw |-> marks.raw,
         val |-> Interpolate(marks.raw)]

\* the thresholds zigzag is called with: 0 %, the default 7 %, 50 %, 100 %
Percents == {Int2F(0), Int2F(7), Int2F(50), Int2F(100)}

CallZigzag ==
    /\ \E percent \in Percents : zz' = zigzag(close, percent)
    /\ UNCHANGED <<made, waiting, kept, trend, dataVars, ind, dd, ddinfo, rsi,
                   psar, stats, cs>>

\* ------------------------------------------------------------------------
\* relative_strength_index(n)
\* ------------------------------------------------------------------------
\* change = self.close - self.close.shift(1)
Change(c) == [i \in 1..Len(c) |-> IF i = 1 THEN NaN ELSE Sub(c[i], c[i - 1])]

\* gain[gain < 0] = 0.0
Gain(change) == [i \in 1..Len(change) |->
                    IF Lt(change[i], Zero) THEN Zero ELSE change[i]]

\* (mutant) the losses left negative
LossSigned(change) == [i \in 1..Len(change) |->
                    IF Gt(change[i], Zero) THEN Zero ELSE change[i]]

\* loss[loss > 0] = 0.0 ; loss = -1.0 * loss
Loss(change) == [i \in 1..Len(change) |->
                    IF Gt(change[i], Zero) THEN Zero ELSE Neg(change[i])]

\* Series.sum() of the positions a..b: missing values are skipped
RECURSIVE SumSkipNa(_, _, _)
SumSkipNa(s, a, b) ==
    IF a > b THEN Zero
    ELSE IF IsNaN(s[b]) THEN SumSkipNa(s, a, b - 1)
    ELSE Add(SumSkipNa(s, a, b - 1), s[b])

\* the seed: avg[n] = value[0:n].sum() / n  (position n + 1 here)
SeedAverage(value, n) == Div(SumSkipNa(value, 1, n), Int2F(n))

\* (mutant) the previous average taken with weight 1, not (n-1)
SmoothUnweighted(prev, value, n) ==
    Add(Div(prev, Int2F(n)), Div(value, Int2F(n)))

\* avg[i] = (n-1) * (avg[i-1] / n) + (value[i] / n)
Smooth(prev, value, n) ==
    Add(Mul(Int2F(n - 1), Div(prev, Int2F(n))), Div(value, Int2F(n)))

\* the average series: zeros up to the seed, the seed at position n + 1,
\* then the recursion
RECURSIVE Averages(_, _, _)
Averages(value, n, upto) ==
    IF upto = 0 THEN <<>>
    ELSE LET prev == Averages(value, n, upto - 1)
         IN  Append(prev,
                    IF upto <= n THEN Zero
                    ELSE IF upto = n + 1 THEN SeedAverage(value, n)
                    ELSE Smooth(prev[upto - 1], value[upto], n))

\* 100.0 - (100.0 / (1.0 + rs))
RsiValue(avg_gain, avg_loss) ==
    LET rs == Div(avg_gain, avg_loss)
    IN  Sub(Int2F(100), Div(Int2F(100), Add(One, rs)))

relative_strength_index(c, n) ==
    LET change == Change(c)
        gain == Gain(change)
        loss == Loss(change)
        len == Len(c)
    IN  IF n >= len
        THEN \* avg_gain[n] = ... : position n is outside the series
             [NoRsi EXCEPT !.called = TRUE, !.n = n, !.raised = "IndexError"]
        ELSE LET avg_gain == Averages(gain, n, len)
                 avg_loss == Averages(loss, n, len)
             IN  [called |-> TRUE, n |-> n, raised |-> "none",
                  avg_gain |-> avg_gain, avg_loss |-> avg_loss,
                  val |-> [i \in 1..len |-> RsiValue(avg_gain[i], avg_loss[i])]]

CallRsi ==
    /\ \E n \in 1..MaxWindowRSI : rsi' = relative_strength_index(close, n)
    /\ UNCHANGED <<made, waiting, kept, trend, dataVars, ind, dd, ddinfo, zz,
                   psar, stats, cs>>

\* ------------------------------------------------------------------------
\* Specifications of zigzag and of the relative strength index: an Asset
\* built from a series of positive closes, then calls of the indicator
\* ------------------------------------------------------------------------
InitCloses(maxBars, maxPrice) ==
    /\ \E n \in 1..maxBars :
          /\ idx = PlainIndex(n)
          /\ close \in [1..n -> {Int2F(p) : p \in 1..maxPrice}]
    /\ high = close
    /\ low = close
    /\ dd = NoSeries
    /\ ddinfo = NoInfo
    /\ zz = NoZigzag
    /\ rsi = NoRsi
    /\ psar = NoSar
    /\ stats = NoStats
    /\ cs = NoCall
    /\ waiting = NoCall
    /\ kept = NoReport
    /\ trend = NoTrend
    /\ open = close
    /\ volume = PlainVolume(Len(close))
    /\ ind = NoInd
    /\ made = TRUE

InitZZ == InitCloses(MaxBarsZZ, MaxPriceZZ)
NextZZ == CallZigzag
SpecZZ == InitZZ /\ [][NextZZ]_vars

InitRSI == InitCloses(MaxBarsRSI, MaxPriceRSI)
NextRSI == CallRsi
SpecRSI == InitRSI /\ [][NextRSI]_vars

\* ------------------------------------------------------------------------
\* parabolic_sar(step_r, step_f, max_af_r, max_af_f)
\* ------------------------------------------------------------------------
\* the tunables parabolic_sar is called with: the defaults
\* (0.02, 0.02, 0.2, 0.2) and a fast, asymmetric setting
SarParams ==
    { [step_r |-> Rat(1, 50), step_f |-> Rat(1, 50),
       max_af_r |-> Rat(1, 5), max_af_f |-> Rat(1, 5)],
      [step_r |-> Rat(1, 2), step_f |-> Rat(1, 4),
       max_af_r |-> One, max_af_f |-> Rat(1, 2)] }

Zeros(n) == [i \in 1..n |-> Zero]

\* lines 823-830: the two output series and the carried state
SarBegin ==
    /\ psar.pc \in {"idle", "done"}
    /\ \E p \in SarParams :
          psar' = [pc |-> "loop", i |-> 2, ep |-> high[1], af |-> p.step_r,
                   sar |-> low[1], up |-> TRUE,
                   r_sar |-> Zeros(Len(high)), f_sar |-> Zeros(Len(high)),
                   step_r |-> p.step_r, step_f |-> p.step_f,
                   max_af_r |-> p.max_af_r, max_af_f |-> p.max_af_f,
                   trace |-> <<>>]
    /\ UNCHANGED <<made, waiting, kept, trend, dataVars, ind, dd, ddinfo, zz,
                   rsi, stats, cs>>

\* lines 835-837 and 841-843: the extreme point, the acceleration factor and
\* the stop of one bar; extreme is the bar's high (rising) or low (falling)
SarAdvance(st, extreme, step, max_af) ==
    LET ep == IF st.up THEN FMax(st.ep, extreme) ELSE FMin(st.ep, extreme)
        af == FMin(IF Eq(ep, extreme) THEN Add(st.af, step) ELSE st.af, max_af)
        sar == Add(st.sar, Mul(af, Sub(ep, st.sar)))
    IN  [st EXCEPT !.ep = ep, !.af = af, !.sar = sar]

\* (mutant) the stop written to both series
SarWriteBoth(st, i) ==
    [st EXCEPT !.r_sar[i] = st.sar, !.f_sar[i] = st.sar]

\* lines 838 and 844: r_sar[i] = sar while rising, f_sar[i] = sar otherwise
SarWrite(st, i) ==
    IF st.up THEN [st EXCEPT !.r_sar[i] = st.sar]
    ELSE [st EXCEPT !.f_sar[i] = st.sar]

\* (mutant) a switch that keeps the factor of the phase it leaves
SarSwitchKeepAf(st, h, l) ==
    IF st.up /\ (Gt(st.sar, l) \/ Gt(st.sar, h))
    THEN [st EXCEPT !.up = FALSE, !.sar = st.ep]
    ELSE IF ~st.up /\ (Lt(st.sar, l) \/ Lt(st.sar, h))
    THEN [st EXCEPT !.up = TRUE, !.sar = st.ep]
    ELSE st

\* (mutant) a switch that leaves the stop where the bar put it
SarSwitchKeepStop(st, h, l) ==
    IF st.up /\ (Gt(st.sar, l) \/ Gt(st.sar, h))
    THEN [st EXCEPT !.up = FALSE, !.af = st.step_f]
    ELSE IF ~st.up /\ (Lt(st.sar, l) \/ Lt(st.sar, h))
    THEN [st EXCEPT !.up = TRUE, !.af = st.step_r]
    ELSE st

\* lines 846-853: the trend switch
SarSwitch(st, h, l) ==
    IF st.up /\ (Gt(st.sar, l) \/ Gt(st.sar, h))
    THEN [st EXCEPT !.up = FALSE, !.sar = st.ep, !.af = st.step_f]
    ELSE IF ~st.up /\ (Lt(st.sar, l) \/ Lt(st.sar, h))
    THEN [st EXCEPT !.up = TRUE, !.sar = st.ep, !.af = st.step_r]
    ELSE st

\* one pass of the loop body, for bar i
SarStep ==
    /\ psar.pc = "loop"
    /\ psar.i <= Len(high)
    /\ LET i == psar.i
           adv == IF psar.up
                  THEN SarAdvance(psar, high[i], psar.step_r, psar.max_af_r)
                  ELSE SarAdvance(psar, low[i], psar.step_f, psar.max_af_f)
           wr == SarWrite(adv, i)
           sw == SarSwitch(wr, high[i], low[i])
       IN  psar' = [sw EXCEPT !.i = i + 1,
                       !.trace = Append(psar.trace,
                                        [up |-> psar.up, sar |-> adv.sar,
                                         ep |-> adv.ep, af |-> adv.af])]
    /\ UNCHANGED <<made, waiting, kept, trend, dataVars, ind, dd, ddinfo, zz,
                   rsi, stats, cs>>

\* line 855: the loop is exhausted, the two series are returned
SarReturn ==
    /\ psar.pc = "loop"
    /\ psar.i > Len(high)
    /\ psar' = [psar EXCEPT !.pc = "done"]
    /\ UNCHANGED <<made, waiting, kept, trend, dataVars, ind, dd, ddinfo, zz,
                   rsi, stats, cs>>

\* ------------------------------------------------------------------------
\* Specification of the parabolic SAR: an Asset built from bars with
\* low <= close <= high, then calls of parabolic_sar
\* ------------------------------------------------------------------------
InitSAR ==
    /\ \E n \in 1..MaxBarsSAR :
          /\ idx = PlainIndex(n)
          /\ high \in [1..n -> {Int2F(p) : p \in 1..MaxPriceSAR}]
          /\ low \in [1..n -> {Int2F(p) : p \in 1..MaxPriceSAR}]
          /\ \A i \in 1..n : Le(low[i], high[i])
    /\ close = high
    /\ dd = NoSeries
    /\ ddinfo = NoInfo
    /\ zz = NoZigzag
    /\ rsi = NoRsi
    /\ psar = NoSar
    /\ stats = NoStats
    /\ cs = NoCall
    /\ waiting = NoCall
    /\ kept = NoReport
    /\ trend = NoTrend
    /\ open = close
    /\ volume = PlainVolume(Len(close))
    /\ ind = NoInd
    /\ made = TRUE

NextSAR == SarBegin \/ SarStep \/ SarReturn
SpecSAR == InitSAR /\ [][NextSAR]_vars

\* ------------------------------------------------------------------------
\* calc_stats(yearly_risk_free_return): helpers
\* ------------------------------------------------------------------------
\* the values of a series that are not missing
ValidOf(s) == SelectSeq(s, LAMBDA x : ~IsNaN(x))
AllNaN(s) == \A i \in 1..Len(s) : IsNaN(s[i])

RECURSIVE SumSeq(_)
SumSeq(s) == IF s = <<>> THEN Zero ELSE Add(Head(s), SumSeq(Tail(s)))

\* the values of a series that satisfy a test (s[s > 0], s[s <= 0])
Positive(s) == SelectSeq(s, LAMBDA x : Gt(x, Zero))
NonPositive(s) == SelectSeq(s, LAMBDA x : Le(x, Zero))

\* Series.mean(): missing values skipped, NaN for no value
Mean(s) ==
    LET v == ValidOf(s)
    IN  IF Len(v) = 0 THEN NaN ELSE Div(SumSeq(v), Int2F(Len(v)))

\* the sample variance under Series.std() (ddof = 1): NaN below 2 values
Variance(s) ==
    LET v == ValidOf(s)
        m == Mean(s)
        sq == [i \in 1..Len(v) |-> Mul(Sub(v[i], m), Sub(v[i], m))]
    IN  IF Len(v) < 2 THEN NaN ELSE Div(SumSeq(sq), Int2F(Len(v) - 1))

\* np.sqrt
Sqrt(x) ==
    IF IsNaN(x) THEN NaN ELSE IF x = Zero THEN Zero ELSE Sym("sqrt", <<x>>)

\* np.sqrt(periods) * s.std()
AnnualVol(periods, s) == Sqrt(Mul(Int2F(periods), Variance(s)))

\* lines 203-204: (np.power(1 + rf, 1.0 / periods) - 1.0) * periods, a rate
\* strictly between 0 and rf for rf > 0
PeriodRiskFree(rf, periods) ==
    IF rf = Zero THEN Zero ELSE Sym("period_rate", <<rf, periods>>)

\* (mean - risk_free) / vol
Sharpe(mean, risk_free, vol) ==
    IF IsNaN(mean) \/ IsNaN(vol) THEN NaN
    ELSE IF vol = Zero
    THEN IF IsNum(risk_free) THEN Div(Sub(mean, risk_free), Zero)
         ELSE IF Le(mean, Zero) THEN NInf
         ELSE IF Ge(mean, risk_free.args[1]) THEN PInf
         ELSE Sym("sharpe", <<mean, risk_free, vol>>)
    ELSE Sym("sharpe", <<mean, risk_free, vol>>)

\* Series.skew(): NaN below 3 values, 0 for a series without variance
Skew(s) ==
    LET v == ValidOf(s)
    IN  IF Len(v) < 3 THEN NaN
        ELSE IF Variance(s) = Zero THEN Zero ELSE Sym("skew", v)

\* s.kurt() if len(s[(~np.isnan(s)) & (s != 0)]) > 0 else np.nan ;
\* Series.kurt(): NaN below 4 values, 0 for a series without variance
Kurt(s) ==
    LET v == ValidOf(s)
    IN  IF SelectSeq(v, LAMBDA x : x # Zero) = <<>> THEN NaN
        ELSE IF Len(v) < 4 THEN NaN
        ELSE IF Variance(s) = Zero THEN Zero ELSE Sym("kurt", v)

\* s.ix[s.idxmax():s.idxmax()] and s.ix[s.idxmin():s.idxmin()]: the largest
\* (smallest) value of the series; the series it is wrapped in holds that one
\* entry.  For a series with no value idxmax() is NaN and the slice raises.
Best(s) ==
    LET v == ValidOf(s)
    IN  v[CHOOSE i \in 1..Len(v) : \A j \in 1..Len(v) : Le(v[j], v[i])]
Worst(s) ==
    LET v == ValidOf(s)
    IN  v[CHOOSE i \in 1..Len(v) : \A j \in 1..Len(v) : Le(v[i], v[j])]

\* compfipy.util.calc_returns: the change of each value against the one
\* before it, missing at the first position
calc_returns(x) ==
    [i \in 1..Len(x) |-> IF i = 1 THEN NaN ELSE Sub(Div(x[i], x[i - 1]), One)]

\* compfipy.util.calc_cagr of the bars at positions a..b:
\* (x[-1] / x[0]) ^ (DAYS_IN_YEAR / days) - 1
calc_cagr(x, index, a, b) ==
    LET ratio == Div(x[b], x[a])
    IN  IF IsNaN(ratio) THEN NaN
        ELSE Sym("cagr", <<ratio, DaysBetween(index[a], index[b]),
                           DAYS_IN_YEAR>>)

\* resample('M') / resample('A'): the calendar periods from the first bar's
\* to the last bar's, empty periods included
MonthOrd(dt) == dt.y * MONTHS_IN_YEAR + (dt.m - 1)
MonthCount(index) == MonthOrd(index[Len(index)]) - MonthOrd(index[1]) + 1
YearCount(index) == index[Len(index)].y - index[1].y + 1

\* the label of the k-th month of the resampled index
MonthLabel(index, k) ==
    LET o == MonthOrd(index[1]) + k - 1
        y == o \div MONTHS_IN_YEAR
        m == (o % MONTHS_IN_YEAR) + 1
    IN  Date(y, m, DaysInMonth(y, m))

\* .last(): the last value of the bars at the given positions that is not
\* missing, NaN when there is none
LastOf(c, ps) ==
    LET ok == {p \in ps : ~IsNaN(c[p])}
    IN  IF ok = {} THEN NaN ELSE c[CHOOSE p \in ok : \A q \in ok : q <= p]

\* line 208: monthly_price = daily_price.resample('M').last()
monthly_price(c, index) ==
    [k \in 1..MonthCount(index) |->
        LastOf(c, {p \in 1..Len(c) :
                      MonthOrd(index[p]) = MonthOrd(index[1]) + k - 1})]

\* line 209: yearly_price = daily_price.resample('A').last()
yearly_price(c, index) ==
    [k \in 1..YearCount(index) |->
        LastOf(c, {p \in 1..Len(c) : index[p].y = index[1].y + k - 1})]

\* date - pd.DateOffset(months=k): the day is cut to the target month's end
MinusMonths(dt, k) ==
    LET o == MonthOrd(dt) - k
        y == o \div MONTHS_IN_YEAR
        m == (o % MONTHS_IN_YEAR) + 1
        last == DaysInMonth(y, m)
    IN  Date(y, m, IF dt.d > last THEN last ELSE dt.d)

\* date - pd.DateOffset(years=k)
MinusYears(dt, k) == MinusMonths(dt, k * MONTHS_IN_YEAR)

\* denominator = daily_price[:cutoff] ;
\* (daily_price[-1] / denominator[-1]) - 1 if len(denominator) > 0 else nan
Lookback(c, index, cutoff) ==
    LET ps == {p \in 1..Len(c) : DayNum(index[p]) <= DayNum(cutoff)}
    IN  IF ps = {} THEN NaN
        ELSE Sub(Div(c[Len(c)], c[CHOOSE p \in ps : \A q \in ps : q <= p]),
                 One)

\* calc_cagr(daily_price[cutoff:])
CagrSince(c, index, cutoff) ==
    LET ps == {p \in 1..Len(c) : DayNum(index[p]) >= DayNum(cutoff)}
    IN  calc_cagr(c, index, CHOOSE p \in ps : \A q \in ps : p <= q, Len(c))

\* lines 302-312: the table of monthly returns by (year, month), the first
\* month replaced by the return since the first bar, and month 13 of each
\* year the compounded return of the year's entries
TableEntry(y, m, v) == [year |-> y, month |-> m, ret |-> v]

\* (mutant) the returns of the entries added up, not compounded
RECURSIVE CompoundSum(_)
CompoundSum(entries) ==
    IF entries = {} THEN One
    ELSE LET e == CHOOSE x \in entries : TRUE
         IN  Add(e.ret, CompoundSum(entries \ {e}))

RECURSIVE Compound(_)
Compound(entries) ==
    IF entries = {} THEN One
    ELSE LET e == CHOOSE x \in entries : TRUE
         IN  Mul(Add(e.ret, One), Compound(entries \ {e}))

return_table(c, index) ==
    LET mp == monthly_price(c, index)
        mr == calc_returns(mp)
        first == Sub(Div(mp[1], c[1]), One)
        months == { TableEntry(MonthLabel(index, k).y, MonthLabel(index, k).m,
                               IF k = 1 THEN first ELSE mr[k])
                    : k \in 1..Len(mr) }
        years == { e.year : e \in months }
    IN  months \cup
        { TableEntry(y, 13, Sub(Compound({e \in months : e.year = y}), One))
          : y \in years }

\* line 349: (monthly_price.pct_change(11) > 0).sum()
\*           / float(len(monthly_price) - (MONTHS_IN_YEAR - 1.0))
TwelveMonthWin(mp) ==
    LET lag == MONTHS_IN_YEAR - 1
        filled == Ffill(mp)
        wins == {k \in (lag + 1)..Len(mp) :
                    Gt(Sub(Div(filled[k], filled[k - lag]), One), Zero)}
    IN  Div(Int2F(Cardinality(wins)), Int2F(Len(mp) - lag))

\* ------------------------------------------------------------------------
\* calc_stats(yearly_risk_free_return): the call, tier by tier
\* ------------------------------------------------------------------------
\* the risk-free rates calc_stats is called with
RiskFreeRates == {Rat(1, 100), Rat(1, 20)}

\* (mutant) the daily threshold one return too low
AfterBuildShort(c) ==
    IF Len(c) = 1 THEN "done"
    ELSE IF Len(calc_returns(c)) < 3 THEN "done" ELSE "daily"

\* lines 260-267: if len(daily_price) is 1: return ; if len(r) < 4: return
AfterBuild(c) ==
    IF Len(c) = 1 THEN "done"
    ELSE IF Len(calc_returns(c)) < 4 THEN "done" ELSE "daily"

\* lines 288-289: if len(mr) < 2: return
AfterDaily(mr) == IF Len(mr) < 2 THEN "done" ELSE "monthly"

\* (mutant) the three-month block skipped
AfterMonthlySkipping(mr) == IF Len(mr) < 3 THEN "done" ELSE "six_month"

\* lines 314-315: if len(mr) < 3: return
AfterMonthly(mr) == IF Len(mr) < 3 THEN "done" ELSE "three_month"

\* lines 320-321: if len(mr) < 4: return
AfterThreeMonth(mr) == IF Len(mr) < 4 THEN "done" ELSE "six_month"

\* (mutant) the yearly block entered from 4 yearly returns on only
AfterSixMonthLate(yr) == IF Len(yr) < 4 THEN "done" ELSE "yearly"

\* lines 332-333: if len(yr) < 2: return
AfterSixMonth(yr) == IF Len(yr) < 2 THEN "done" ELSE "yearly"

\* lines 351-352: if len(yr) < 4: return
AfterYearly(yr) == IF Len(yr) < 4 THEN "done" ELSE "four_year"

\* (mutant) a call that keeps the dict of the previous call and only
\* stores its own rate in it
StatsBeginKeeping ==
    /\ cs.pc \in {"idle", "done", "raised"}
    /\ \E rf \in RiskFreeRates :
          /\ stats' = IF stats.built
                          THEN [stats EXCEPT !.yearly_risk_free_return = rf]
                          ELSE EmptyStats(idx, rf)
          /\ cs' = [pc |-> AfterBuild(close), rf |-> rf, raised |-> "none",
                    tiers |-> {}]
    /\ UNCHANGED <<made, waiting, kept, trend, dataVars, ind, dd, ddinfo, zz,
                   rsi, psar>>

\* lines 203-267: a call starts, replaces self.stats by a fresh report and
\* returns at once for a series too short for the daily statistics
StatsBegin ==
    /\ cs.pc \in {"idle", "done", "raised"}
    /\ \E rf \in RiskFreeRates :
          /\ stats' = EmptyStats(idx, rf)
          /\ cs' = [pc |-> AfterBuild(close), rf |-> rf, raised |-> "none",
                    tiers |-> {}]
    /\ UNCHANGED <<made, waiting, kept, trend, dataVars, ind, dd, ddinfo, zz,
                   rsi, psar>>

\* lines 269-289: the statistics of the daily returns; drawdown_info() is
\* called at line 278 and what it raises leaves calc_stats
StatsDaily ==
    /\ cs.pc = "daily"
    /\ LET r == calc_returns(close)
           n == Len(close)
           mean == Mul(Int2F(DAYS_IN_TRADING_YEAR), Mean(r))
           vol == AnnualVol(DAYS_IN_TRADING_YEAR, r)
           total == Sub(Div(close[n], close[1]), One)
           cagr == calc_cagr(close, idx, 1, n)
           head == [stats EXCEPT
                      !.daily_mean = mean,
                      !.daily_vol = vol,
                      !.daily_sharpe =
                          Sharpe(mean, PeriodRiskFree(cs.rf, DAYS_IN_TRADING_YEAR), vol),
                      !.best_day = Best(r),
                      !.worst_day = Worst(r),
                      !.total_return = total,
                      !.ytd = total,
                      !.cagr = cagr,
                      !.incep = cagr]
           info == drawdown_info(close, idx)
       IN  IF info.raised # "none"
           THEN /\ stats' = head
                /\ cs' = [cs EXCEPT !.pc = "raised", !.raised = info.raised]
           ELSE /\ stats' = [head EXCEPT
                      !.max_drawdown = SliceMin(info.drawdown, 1, Len(info.drawdown)),
                      !.avg_drawdown = Mean(info.drawdown),
                      !.avg_drawdown_days =
                          Mean([i \in 1..Len(info.days) |-> Int2F(info.days[i])]),
                      !.daily_skew = Skew(r),
                      !.daily_kurt = Kurt(r)]
                /\ cs' = [cs EXCEPT
                      !.pc = AfterDaily(calc_returns(monthly_price(close, idx))),
                      !.tiers = @ \cup {1}]
    /\ UNCHANGED <<made, waiting, kept, trend, dataVars, ind, dd, ddinfo, zz,
                   rsi, psar>>

\* lines 291-315: the statistics of the monthly returns and the return table
StatsMonthly ==
    /\ cs.pc = "monthly"
    /\ LET mp == monthly_price(close, idx)
           mr == calc_returns(mp)
           mean == Mul(Int2F(MONTHS_IN_YEAR), Mean(mr))
           vol == AnnualVol(MONTHS_IN_YEAR, mr)
           head == [stats EXCEPT
                      !.monthly_mean = mean,
                      !.monthly_vol = vol,
                      !.monthly_sharpe =
                          Sharpe(mean, PeriodRiskFree(cs.rf, MONTHS_IN_YEAR), vol)]
       IN  IF AllNaN(mr)
           THEN \* line 294: mr.idxmax() of a series without a value
                /\ stats' = head
                /\ cs' = [cs EXCEPT !.pc = "raised", !.raised = "TypeError"]
           ELSE /\ stats' = [head EXCEPT
                      !.best_month = Best(mr),
                      !.worst_month = Worst(mr),
                      !.mtd = Sub(Div(close[Len(close)], mp[Len(mp) - 1]), One),
                      !.pos_month_perc =
                          Div(Int2F(Len(Positive(mr))), Int2F(Len(mr) - 1)),
                      !.avg_up_month = Mean(Positive(mr)),
                      !.avg_down_month = Mean(NonPositive(mr)),
                      !.return_table = return_table(close, idx)]
                /\ cs' = [cs EXCEPT !.pc = AfterMonthly(mr),
                                    !.tiers = @ \cup {2}]
    /\ UNCHANGED <<made, waiting, kept, trend, dataVars, ind, dd, ddinfo, zz,
                   rsi, psar>>

\* lines 317-321: the trailing three-month return
StatsThreeMonth ==
    /\ cs.pc = "three_month"
    /\ stats' = [stats EXCEPT
          !.three_month = Lookback(close, idx, MinusMonths(idx[Len(idx)], 3))]
    /\ cs' = [cs EXCEPT
          !.pc = AfterThreeMonth(calc_returns(monthly_price(close, idx))),
          !.tiers = @ \cup {3}]
    /\ UNCHANGED <<made, waiting, kept, trend, dataVars, ind, dd, ddinfo, zz,
                   rsi, psar>>

\* lines 323-333: the monthly moments and the trailing six-month return
StatsSixMonth ==
    /\ cs.pc = "six_month"
    /\ LET mr == calc_returns(monthly_price(close, idx))
       IN  stats' = [stats EXCEPT
              !.monthly_skew = Skew(mr),
              !.monthly_kurt = Kurt(mr),
              !.six_month = Lookback(close, idx, MinusMonths(idx[Len(idx)], 6))]
    /\ cs' = [cs EXCEPT
          !.pc = AfterSixMonth(calc_returns(yearly_price(close, idx))),
          !.tiers = @ \cup {4}]
    /\ UNCHANGED <<made, waiting, kept, trend, dataVars, ind, dd, ddinfo, zz,
                   rsi, psar>>

\* lines 335-352: the statistics of the yearly returns
StatsYearly ==
    /\ cs.pc = "yearly"
    /\ LET yp == yearly_price(close, idx)
           yr == calc_returns(yp)
           last == idx[Len(idx)]
           mean == Mean(yr)
           vol == Sqrt(Variance(yr))
           head == [stats EXCEPT
                      !.ytd = Sub(Div(close[Len(close)], yp[Len(yp) - 1]), One),
                      !.one_year = Lookback(close, idx, MinusYears(last, 1)),
                      !.yearly_mean = mean,
                      !.yearly_vol = vol,
                      !.yearly_sharpe = Sharpe(mean, cs.rf, vol)]
       IN  IF AllNaN(yr)
           THEN \* line 343: yr.idxmax() of a series without a value
                /\ stats' = head
                /\ cs' = [cs EXCEPT !.pc = "raised", !.raised = "TypeError"]
           ELSE /\ stats' = [head EXCEPT
                      !.best_year = Best(yr),
                      !.worst_year = Worst(yr),
                      !.three_year = CagrSince(close, idx, MinusYears(last, 3)),
                      !.win_year_perc =
                          Div(Int2F(Len(Positive(yr))), Int2F(Len(yr) - 1)),
                      !.twelve_month_win_perc =
                          TwelveMonthWin(monthly_price(close, idx))]
                /\ cs' = [cs EXCEPT !.pc = AfterYearly(yr),
                                    !.tiers = @ \cup {5}]
    /\ UNCHANGED <<made, waiting, kept, trend, dataVars, ind, dd, ddinfo, zz,
                   rsi, psar>>

\* lines 354-359: the yearly moments and the five- and ten-year growth rates
StatsFourYear ==
    /\ cs.pc = "four_year"
    /\ LET yr == calc_returns(yearly_price(close, idx))
           last == idx[Len(idx)]
       IN  stats' = [stats EXCEPT
              !.yearly_skew = Skew(yr),
              !.yearly_kurt = Kurt(yr),
              !.five_year = CagrSince(close, idx, MinusYears(last, 5)),
              !.ten_year = CagrSince(close, idx, MinusYears(last, 10))]
    /\ cs' = [cs EXCEPT !.pc = "done", !.tiers = @ \cup {6}]
    /\ UNCHANGED <<made, waiting, kept, trend, dataVars, ind, dd, ddinfo, zz,
                   rsi, psar>>

\* the index of n bars at consecutive dates of the calendar
DateRuns(n) ==
    { [i \in 1..n |-> Calendar[s + i - 1]] : s \in 1..(Len(Calendar) - n + 1) }

\* ------------------------------------------------------------------------
\* Specification of the statistics aggregator: an Asset built from a series
\* of positive closes at consecutive dates of the calendar, then calls of
\* calc_stats
\* ------------------------------------------------------------------------
InitStats ==
    /\ \E n \in 1..MaxBarsStats :
          /\ idx \in DateRuns(n)
          /\ close \in [1..n -> {Int2F(p) : p \in 1..MaxPriceStats}]
    /\ high = close
    /\ low = close
    /\ dd = NoSeries
    /\ ddinfo = NoInfo
    /\ zz = NoZigzag
    /\ rsi = NoRsi
    /\ psar = NoSar
    /\ stats = NoStats
    /\ cs = NoCall
    /\ waiting = NoCall
    /\ kept = NoReport
    /\ trend = NoTrend
    /\ open = close
    /\ volume = PlainVolume(Len(close))
    /\ ind = NoInd
    /\ made = TRUE

NextStats ==
    \/ StatsBegin
    \/ StatsDaily
    \/ StatsMonthly
    \/ StatsThreeMonth
    \/ StatsSixMonth
    \/ StatsYearly
    \/ StatsFourYear

SpecStats == InitStats /\ [][NextStats]_vars

\* ------------------------------------------------------------------------
\* The volume indicators: on_balance_volume(), money_flow_index(n),
\* negative_volume_index(n)
\* ------------------------------------------------------------------------
\* Series.cumsum(): the running sum of the values so far, a missing value
\* skipped and left missing
RECURSIVE CumSum(_)
CumSum(s) ==
    IF Len(s) = 0 THEN s
    ELSE LET f == CumSum(SubSeq(s, 1, Len(s) - 1))
             x == s[Len(s)]
             sofar == SumSeq(ValidOf(SubSeq(s, 1, Len(s) - 1)))
         IN  Append(f, IF IsNaN(x) THEN NaN ELSE Add(sofar, x))

\* lines 1197-1202: the volume of a bar counted positive, 0 on a falling
\* close and missing on an unchanged close
PositiveObv(c, v) ==
    [i \in 1..Len(c) |->
        IF i > 1 /\ Eq(c[i], c[i - 1]) THEN NaN
        ELSE IF i > 1 /\ Lt(c[i], c[i - 1]) THEN Zero
        ELSE v[i]]

\* the volume of a bar counted negative, 0 on a rising close and missing on
\* an unchanged close
NegativeObv(c, v) ==
    [i \in 1..Len(c) |->
        IF i > 1 /\ Eq(c[i], c[i - 1]) THEN NaN
        ELSE IF i > 1 /\ Gt(c[i], c[i - 1]) THEN Zero
        ELSE Neg(v[i])]

\* lines 1203-1204: obv = p_obv + n_obv ; return obv.ffill().cumsum()
on_balance_volume(c, v) ==
    LET p_obv == PositiveObv(c, v)
        n_obv == NegativeObv(c, v)
        obv_ == [i \in 1..Len(c) |-> Add(p_obv[i], n_obv[i])]
    IN  CumSum(Ffill(obv_))

\* (mutant) the masks written into the volume column itself
CallObvInPlace ==
    /\ ind' = [op |-> "obv", n |-> 0, val |-> on_balance_volume(close, volume),
               signal |-> <<>>]
    /\ volume' = PositiveObv(close, volume)
    /\ UNCHANGED <<made, waiting, kept, trend, idx, open, high, low, close,
                   dd, ddinfo, zz, rsi, psar, stats, cs>>

\* p_obv = self.volume.astype(float) is a copy: the masks of lines 1199-1202
\* are written to p_obv and n_obv, not to the data
CallObv ==
    /\ ind' = [op |-> "obv", n |-> 0, val |-> on_balance_volume(close, volume),
               signal |-> <<>>]
    /\ UNCHANGED <<made, waiting, kept, trend, dataVars, dd, ddinfo, zz, rsi,
                   psar, stats, cs>>

\* pd.rolling_sum(s, n): missing until n values are in the window
RollingSum(s, n) ==
    [i \in 1..Len(s) |->
        IF i < n THEN NaN
        ELSE IF \E j \in (i - n + 1)..i : IsNaN(s[j]) THEN NaN
        ELSE SumSeq(SubSeq(s, i - n + 1, i))]

\* line 658: (self.high + self.low + self.close) / 3.0
typical_price(h, l, c) ==
    [i \in 1..Len(c) |-> Div(Add(Add(h[i], l[i]), c[i]), Int2F(3))]

\* lines 1167-1174
money_flow_index(h, l, c, v, n) ==
    LET tp == typical_price(h, l, c)
        rmf == [i \in 1..Len(c) |-> Mul(tp[i], v[i])]
        pmf == [i \in 1..Len(c) |-> IF Lt(rmf[i], Zero) THEN Zero ELSE rmf[i]]
        nmf == [i \in 1..Len(c) |-> IF Gt(rmf[i], Zero) THEN Zero ELSE rmf[i]]
        ps == RollingSum(pmf, n)
        ns == RollingSum(nmf, n)
    IN  [i \in 1..Len(c) |->
            Sub(Int2F(100),
                Div(Int2F(100), Add(One, Div(ps[i], ns[i]))))]

\* the rolling windows the volume indicators are called with
MaxWindowInd == 2

CallMfi ==
    /\ \E n \in 1..MaxWindowInd :
          ind' = [op |-> "mfi", n |-> n,
                  val |-> money_flow_index(high, low, close, volume, n),
                  signal |-> <<>>]
    /\ UNCHANGED <<made, waiting, kept, trend, dataVars, dd, ddinfo, zz, rsi,
                   psar, stats, cs>>

\* line 1493: self.close.pct_change(periods=1): the change against the bar
\* before, missing closes forward-filled first
returns(c) ==
    LET filled == Ffill(c)
    IN  [i \in 1..Len(c) |->
            IF i = 1 THEN NaN ELSE Sub(Div(filled[i], filled[i - 1]), One)]

\* lines 1180-1186: the cumulated returns, replaced on a day of rising
\* volume by the value of the last day without; the signal is
\* compfipy.util.ema of that series
negative_volume_index(c, v, n) ==
    LET pct_change == CumSum(returns(c))
        masked == [i \in 1..Len(c) |->
                      IF i > 1 /\ Gt(v[i], v[i - 1]) THEN NaN ELSE pct_change[i]]
        filled == Ffill(masked)
        nvi == [i \in 1..Len(c) |-> Add(Int2F(1000), filled[i])]
    IN  [nvi |-> nvi, signal |-> Sym("ema", <<nvi, n>>)]

CallNvi ==
    /\ \E n \in 1..MaxWindowInd :
          LET r == negative_volume_index(close, volume, n)
          IN  ind' = [op |-> "nvi", n |-> n, val |-> r.nvi, signal |-> r.signal]
    /\ UNCHANGED <<made, waiting, kept, trend, dataVars, dd, ddinfo, zz, rsi,
                   psar, stats, cs>>

\* ------------------------------------------------------------------------
\* aroon(n)
\* ------------------------------------------------------------------------
\* pd.rolling_max(high, n, 0) / pd.rolling_min(low, n, 0): the extreme of
\* the last n bars, of all bars so far while there are fewer than n
RollingMax(s, n) ==
    [i \in 1..Len(s) |->
        LET w == {j \in 1..i : j > i - n}
        IN  s[CHOOSE j \in w : \A k \in w : Le(s[k], s[j])]]
RollingMin(s, n) ==
    [i \in 1..Len(s) |->
        LET w == {j \in 1..i : j > i - n}
        IN  s[CHOOSE j \in w : \A k \in w : Le(s[j], s[k])]]

\* high == n_day_high: the bars that are a rolling extreme
ExtremeBars(s, rolling) == {i \in 1..Len(s) : Eq(s[i], rolling[i])}

\* days_since[day_b4] = time_since_last ; days_since[s == rolling] = 0.0 :
\* 0 at an extreme bar; at the bar before an extreme bar the days between
\* that extreme bar and the extreme bar before it; missing elsewhere
DaysMarked(E, index) ==
    [i \in 1..Len(index) |->
        IF i \in E THEN Zero
        ELSE IF (i + 1) \in E
        THEN LET before == {j \in E : j < i + 1}
                 last_one == CHOOSE j \in before : \A k \in before : k <= j
             IN  Int2F(DaysBetween(index[last_one], index[i + 1]))
        ELSE NaN]

\* Series.interpolate('time'): a missing value lies on the line, over time,
\* between the values before and after it; after the last value it takes
\* the last value.  The first bar is never missing here.
InterpolateTime(s, index) ==
    [i \in 1..Len(s) |->
        IF ~IsNaN(s[i]) THEN s[i]
        ELSE LET A == {j \in 1..(i - 1) : ~IsNaN(s[j])}
                 B == {j \in (i + 1)..Len(s) : ~IsNaN(s[j])}
                 a == CHOOSE j \in A : \A k \in A : k <= j
             IN  IF B = {} THEN s[a]
                 ELSE LET b == CHOOSE j \in B : \A k \in B : j <= k
                      IN  Add(s[a],
                              Mul(Sub(s[b], s[a]),
                                  Rat(DaysBetween(index[a], index[i]),
                                      DaysBetween(index[a], index[b]))))]

\* (mutant) the values cut to integers but not capped
TruncOnly(s, n) == [i \in 1..Len(s) |-> s[i].n \div s[i].d]

\* .astype(int).clip_upper(n) of a series of non-negative values
TruncClip(s, n) ==
    [i \in 1..Len(s) |->
        LET t == s[i].n \div s[i].d IN IF t > n THEN n ELSE t]

\* lines 973-980 (982-989 for the lows): the days-since series
days_since(s, rolling, index, n) ==
    TruncClip(InterpolateTime(DaysMarked(ExtremeBars(s, rolling), index),
                              index), n)

\* 100.0 * ((n - days_since) / n): days_since and n are integers, so the
\* quotient is the true one under Python 3 and the floored one under
\* Python 2 (the module does not import division from __future__)
AroonLine(days, n, truediv) ==
    [i \in 1..Len(days) |->
        Mul(Int2F(100), IF truediv THEN Rat(n - days[i], n)
                        ELSE Int2F((n - days[i]) \div n))]

aroon(h, l, index, n, truediv) ==
    LET days_since_high == days_since(h, RollingMax(h, n), index, n)
        days_since_low == days_since(l, RollingMin(l, n), index, n)
        aroon_up == AroonLine(days_since_high, n, truediv)
        aroon_dn == AroonLine(days_since_low, n, truediv)
    IN  [op |-> "aroon", n |-> n, truediv |-> truediv,
         days_since_high |-> days_since_high,
         days_since_low |-> days_since_low,
         up |-> aroon_up, down |-> aroon_dn,
         oscillator |-> [i \in 1..Len(h) |-> Sub(aroon_up[i], aroon_dn[i])]]

CallAroon ==
    /\ \E n \in 1..MaxWindowAroon, truediv \in BOOLEAN :
          trend' = aroon(high, low, idx, n, truediv)
    /\ UNCHANGED <<made, waiting, kept, dataVars, ind, dd, ddinfo, zz, rsi,
                   psar, stats, cs>>

\* ------------------------------------------------------------------------
\* average_directional_index(n)
\* ------------------------------------------------------------------------
\* Series.shift(1): every value one bar later, the first bar missing
Shift(s) == [i \in 1..Len(s) |-> IF i = 1 THEN NaN ELSE s[i - 1]]

\* lines 680-685: true range = high - last low
true_range(h, l) == [i \in 1..Len(h) |-> Sub(h[i], Shift(l)[i])]

\* self.high - self.high.shift(1) and self.low.shift(1) - self.low
UpMove(h) == [i \in 1..Len(h) |-> Sub(h[i], Shift(h)[i])]
DownMove(l) == [i \in 1..Len(l) |-> Sub(Shift(l)[i], l[i])]

\* (mutant) a directional movement that keeps the move wherever it is
\* positive, dominant or not
DirectionalPositive(move, against) ==
    [i \in 1..Len(move) |-> IF Gt(move[i], Zero) THEN move[i] ELSE Zero]

\* lines 1000-1004: zeros, then dm[move > against] = move (a comparison
\* with a missing value is False)
Directional(move, against) ==
    [i \in 1..Len(move) |-> IF Gt(move[i], against[i]) THEN move[i] ELSE Zero]

\* compfipy.util.ema(x, n), the exponential smoothing with factor n: the
\* first value is taken as it is, every later one enters with weight
\* 2 / (n + 1); a missing value leaves the average where it was, and the
\* average is missing until the series has a value
RECURSIVE ema(_, _)
ema(x, n) ==
    IF Len(x) = 0 THEN x
    ELSE LET prev == ema(SubSeq(x, 1, Len(x) - 1), n)
             last_one == IF Len(prev) = 0 THEN NaN ELSE prev[Len(prev)]
             v == x[Len(x)]
             alpha == Rat(2, n + 1)
         IN  Append(prev,
                    IF IsNaN(v) THEN last_one
                    ELSE IF IsNaN(last_one) THEN v
                    ELSE Add(Mul(alpha, v), Mul(Sub(One, alpha), last_one)))

\* line 1010: dx = ((pdin - ndin) / (pdin + ndin)).abs()
DirectionalIndex(pdin, ndin) ==
    [i \in 1..Len(pdin) |->
        FAbs(Div(Sub(pdin[i], ndin[i]), Add(pdin[i], ndin[i])))]

\* line 1011: adx = ((n-1) * dx.shift(1) + dx) / n
AdxOf(dx, n) ==
    [i \in 1..Len(dx) |->
        Div(Add(Mul(Int2F(n - 1), Shift(dx)[i]), dx[i]), Int2F(n))]

average_directional_index(h, l, n) ==
    LET tr == true_range(h, l)
        pdm == Directional(UpMove(h), DownMove(l))
        ndm == Directional(DownMove(l), UpMove(h))
        trn == ema(tr, n)
        pdmn == ema(pdm, n)
        ndmn == ema(ndm, n)
        pdin == [i \in 1..Len(h) |-> Div(pdmn[i], trn[i])]
        ndin == [i \in 1..Len(h) |-> Div(ndmn[i], trn[i])]
        dx == DirectionalIndex(pdin, ndin)
    IN  [op |-> "adx", n |-> n, pdm |-> pdm, ndm |-> ndm, dx |-> dx,
         adx |-> AdxOf(dx, n)]

CallAdx ==
    /\ \E n \in 1..MaxWindowAdx :
          trend' = average_directional_index(high, low, n)
    /\ UNCHANGED <<made, waiting, kept, dataVars, ind, dd, ddinfo, zz, rsi,
                   psar, stats, cs>>

\* Specification of the directional index: an Asset built from bars with
\* low <= high, then calls of average_directional_index.  The bars are
\* either up to MaxBarsSAR bars of the prices of the stop-and-reverse
\* specification, or up to MaxBarsAdx bars with a low of 0 or 1 and a high
\* up to MaxPriceAdx, so that both moves of a bar can be positive
BarsOver(n, highs, lows) ==
    LET pairs == {pr \in highs \X lows : pr[2] <= pr[1]}
    IN  \E bars \in [1..n -> pairs] :
          /\ idx = PlainIndex(n)
          /\ high = [i \in 1..n |-> Int2F(bars[i][1])]
          /\ low = [i \in 1..n |-> Int2F(bars[i][2])]

WideBars(n) == BarsOver(n, 1..MaxPriceAdx, 0..1)
NarrowBars(n) == BarsOver(n, 1..MaxPriceSAR, 1..MaxPriceSAR)

InitAdx ==
    /\ \/ \E n \in 1..MaxBarsAdx : WideBars(n)
       \/ \E n \in 1..MaxBarsSAR : NarrowBars(n)
    /\ close = high
    /\ open = low
    /\ volume = PlainVolume(Len(close))
    /\ made = TRUE
    /\ dd = NoSeries
    /\ ddinfo = NoInfo
    /\ zz = NoZigzag
    /\ rsi = NoRsi
    /\ psar = NoSar
    /\ ind = NoInd
    /\ stats = NoStats
    /\ cs = NoCall
    /\ waiting = NoCall
    /\ kept = NoReport
    /\ trend = NoTrend
NextAdx == CallAdx
SpecAdx == InitAdx /\ [][NextAdx]_vars

\* ------------------------------------------------------------------------
\* Specification of the trend indicators: an Asset built from bars with
\* low <= high, on consecutive days or on days with a weekend between
\* them, then calls of aroon
\* ------------------------------------------------------------------------
\* n consecutive days
DailyIndex(n) == [i \in 1..n |-> Date(2001, 12, 26 + i)]

\* n trading days: 28, 29 and 31 December, 2 January and on
TradingIndex(n) == [i \in 1..n |-> Calendar[4 + i]]

InitTrend ==
    /\ \E n \in 1..MaxBarsTrend :
          /\ idx \in {DailyIndex(n), TradingIndex(n)}
          /\ high \in [1..n -> {Int2F(p) : p \in 1..MaxPriceTrend}]
          /\ low \in [1..n -> {Int2F(p) : p \in 1..MaxPriceTrend}]
          /\ \A i \in 1..n : Le(low[i], high[i])
    /\ close = high
    /\ open = low
    /\ volume = PlainVolume(Len(close))
    /\ dd = NoSeries
    /\ ddinfo = NoInfo
    /\ zz = NoZigzag
    /\ rsi = NoRsi
    /\ psar = NoSar
    /\ ind = NoInd
    /\ stats = NoStats
    /\ cs = NoCall
    /\ waiting = NoCall
    /\ kept = NoReport
    /\ trend = NoTrend
    /\ made = TRUE

NextTrend == CallAroon

SpecTrend == InitTrend /\ [][NextTrend]_vars

\* ------------------------------------------------------------------------
\* Asset(data, market_cap): construction
\* ------------------------------------------------------------------------
\* the ways the price data handed to the constructor can be malformed
Faults == {"none", "timestamps", "high_low", "volume"}

\* price data of Len(c) bars with closes c, low = close and high one above,
\* carrying one fault at bar p: the timestamps of bars p and p + 1 exchanged,
\* high and low of bar p exchanged, or the volume of bar p negative
RawData(c, fault, p) ==
    LET n == Len(c)
        up == [i \in 1..n |-> Add(c[i], One)]
        swap(i) == IF i = p THEN p + 1 ELSE IF i = p + 1 THEN p ELSE i
    IN  [idx |-> [i \in 1..n |->
                     IF fault = "timestamps" THEN Calendar[swap(i)]
                     ELSE Calendar[i]],
         high |-> [i \in 1..n |->
                     IF fault = "high_low" /\ i = p THEN c[i] ELSE up[i]],
         low |-> [i \in 1..n |->
                     IF fault = "high_low" /\ i = p THEN up[i] ELSE c[i]],
         volume |-> [i \in 1..n |->
                     IF fault = "volume" /\ i = p THEN Int2F(-100)
                     ELSE Int2F(100)]]

\* lines 180-187: __init__ stores the data as it is handed in
New ==
    /\ ~made
    /\ made' = TRUE
    /\ stats' = NoStats
    /\ UNCHANGED <<waiting, kept, trend, dataVars, dd, ddinfo, zz, rsi, psar,
                   ind, cs>>

\* the data argument before the constructor runs
InitNew ==
    /\ made = FALSE
    /\ \E n \in 1..MaxBarsNew :
       \E c \in [1..n -> {Int2F(q) : q \in 1..MaxPriceNew}] :
       \E fault \in Faults :
       \E p \in 1..n :
          /\ fault = "timestamps" => p < n
          /\ fault = "none" => p = 1
          /\ LET data == RawData(c, fault, p)
             IN  /\ idx = data.idx
                 /\ high = data.high
                 /\ low = data.low
                 /\ volume = data.volume
          /\ close = c
          /\ open = c
    /\ dd = NoSeries
    /\ ddinfo = NoInfo
    /\ zz = NoZigzag
    /\ rsi = NoRsi
    /\ psar = NoSar
    /\ ind = NoInd
    /\ stats = NoStats
    /\ cs = NoCall
    /\ waiting = NoCall
    /\ kept = NoReport
    /\ trend = NoTrend

\* the constructor, then indicator calls on the Asset it made
NextNew ==
    \/ New
    \/ made /\ CallObv
    \/ made /\ CallMfi

SpecNew == InitNew /\ [][NextNew]_vars

\* ------------------------------------------------------------------------
\* Specification of one Asset used for everything: the Asset is built once,
\* then drawdown, drawdown_info, parabolic_sar, zigzag,
\* relative_strength_index, the volume indicators and calc_stats are called
\* on it in any order, at most MaxCallsFrame of these kinds of call per run
\* ------------------------------------------------------------------------
\* the close series of n bars: a falling one, and one that goes up, down and
\* sideways in turn
FrameCloses(n) ==
    { [i \in 1..n |-> Int2F(n + 1 - i)],
      [i \in 1..n |-> Int2F(IF i % 3 = 2 THEN 2 ELSE 1)] }

\* the index of n bars: the last n dates of the calendar
FrameIndex(n) == [i \in 1..n |-> Calendar[Len(Calendar) - n + i]]

\* the kinds of call that have been made on the Asset
Started ==
    {o \in {"drawdown", "drawdown_info", "zigzag", "rsi", "psar", "volume",
            "calc_stats"} :
        CASE o = "drawdown" -> dd.called
          [] o = "drawdown_info" -> ddinfo.called
          [] o = "zigzag" -> zz.called
          [] o = "rsi" -> rsi.called
          [] o = "psar" -> psar.pc # "idle"
          [] o = "volume" -> ind.op # "none"
          [] OTHER -> cs.pc # "idle"}

CanCall(o) == o \in Started \/ Cardinality(Started) < MaxCallsFrame

InitFrame ==
    /\ idx = FrameIndex(MaxBarsFrame)
    /\ close \in FrameCloses(MaxBarsFrame)
    /\ open = close
    /\ low = close
    /\ high = [i \in 1..Len(close) |-> Add(close[i], One)]
    /\ volume = [i \in 1..Len(close) |-> Mul(Int2F(100), close[i])]
    /\ made = TRUE
    /\ dd = NoSeries
    /\ ddinfo = NoInfo
    /\ zz = NoZigzag
    /\ rsi = NoRsi
    /\ psar = NoSar
    /\ ind = NoInd
    /\ stats = NoStats
    /\ cs = NoCall
    /\ waiting = NoCall
    /\ kept = NoReport
    /\ trend = NoTrend

NextFrame ==
    \/ CanCall("drawdown") /\ CallDrawdown
    \/ CanCall("drawdown_info") /\ CallDrawdownInfo
    \/ CanCall("zigzag") /\ CallZigzag
    \/ CanCall("rsi") /\ CallRsi
    \/ CanCall("psar") /\ SarBegin
    \/ SarStep
    \/ SarReturn
    \/ CanCall("volume") /\ CallObv
    \/ CanCall("volume") /\ CallMfi
    \/ CanCall("volume") /\ CallNvi
    \/ CanCall("calc_stats") /\ StatsBegin
    \/ StatsDaily
    \/ StatsMonthly
    \/ StatsThreeMonth
    \/ StatsSixMonth
    \/ StatsYearly
    \/ StatsFourYear

SpecFrame == InitFrame /\ [][NextFrame]_vars

\* ------------------------------------------------------------------------
\* Specification of two threads calling calc_stats() on one Asset: the
\* interpreter runs one thread at a time and may hand over between any two
\* statements; here it hands over between the blocks of calc_stats
\* ------------------------------------------------------------------------
\* the running thread is preempted and the waiting one resumes
Switch ==
    /\ cs # waiting
    /\ cs' = waiting
    /\ waiting' = cs
    /\ UNCHANGED <<made, kept, trend, dataVars, dd, ddinfo, zz, rsi, psar,
                   ind, stats>>

InitConc == InitFrame

NextConc ==
    \/ Switch
    \/ StatsBegin
    \/ StatsDaily
    \/ StatsMonthly
    \/ StatsThreeMonth
    \/ StatsSixMonth
    \/ StatsYearly
    \/ StatsFourYear

SpecConc == InitConc /\ [][NextConc]_vars

\* ------------------------------------------------------------------------
\* Specification of repeated calls of calc_stats() on one Asset by one
\* caller, who keeps the dict asset.stats of a call that returned before
\* calling again
\* ------------------------------------------------------------------------
\* line 359: calc_stats returns self; the caller reads asset.stats and keeps
\* the dict, which the next call does not touch (line 211 binds a new one)
TakeReport ==
    /\ cs.pc = "done"
    /\ kept' = [called |-> TRUE, rf |-> cs.rf, report |-> stats]
    /\ cs' = NoCall
    /\ UNCHANGED <<made, waiting, trend, dataVars, dd, ddinfo, zz, rsi, psar,
                   ind, stats>>

InitRepeat == InitStats

NextRepeat ==
    \/ TakeReport
    \/ StatsBegin
    \/ StatsDaily
    \/ StatsMonthly
    \/ StatsThreeMonth
    \/ StatsSixMonth
    \/ StatsYearly
    \/ StatsFourYear

SpecRepeat == InitRepeat /\ [][NextRepeat]_vars

\* ------------------------------------------------------------------------
\* Properties of the drawdown analyzer
\* ------------------------------------------------------------------------
AllPositive(c) == \A i \in 1..Len(c) : IsNum(c[i]) /\ c[i].n > 0

\* close[i] >= every earlier close
IsRunningMax(c, i) == \A j \in 1..i : Ge(c[i], c[j])

\* C1: for a series of positive closes every value of drawdown() is <= 0,
\* and it is exactly 0 at every bar whose close is a new running maximum.
C1_DrawdownNonPositive ==
    (dd.called /\ AllPositive(close)) =>
        /\ Len(dd.val) = Len(close)
        /\ \A i \in 1..Len(close) :
              /\ Le(dd.val[i], Zero)
              /\ IsRunningMax(close, i) => dd.val[i] = Zero

\* a positive series that falls below its peak and later makes a new high
C1_Witness ==
    /\ dd.called
    /\ AllPositive(close)
    /\ \E i, j \in 1..Len(close) :
          /\ i < j
          /\ Lt(dd.val[i], Zero)
          /\ IsRunningMax(close, j)
          /\ Gt(close[j], close[1])

\* C2: every row of the table of drawdown_info() has start <= end (days >= 0),
\* the rows are ordered by strictly increasing start, and each row starts
\* later than the previous row ends.
C2_EpisodesOrdered ==
    (ddinfo.called /\ ddinfo.raised = "none") =>
        LET rows == Len(ddinfo.start) IN
        /\ Len(ddinfo.end) = rows
        /\ Len(ddinfo.days) = rows
        /\ \A r \in 1..rows :
              /\ ~DateLt(ddinfo.end[r], ddinfo.start[r])
              /\ ddinfo.days[r] >= 0
        /\ \A r \in 1..(rows - 1) :
              /\ DateLt(ddinfo.start[r], ddinfo.start[r + 1])
              /\ DateLt(ddinfo.end[r], ddinfo.start[r + 1])

\* a table of two episodes, the second one still open at the last bar
C2_Witness ==
    /\ ddinfo.called
    /\ AllPositive(close)
    /\ ddinfo.raised = "none"
    /\ Len(ddinfo.start) = 2
    /\ ddinfo.days[1] > 0
    /\ ddinfo.end[2] = idx[Len(idx)]
    /\ ~Eq(ddinfo.drawdown[2], Zero)

\* ------------------------------------------------------------------------
\* Properties of zigzag
\* ------------------------------------------------------------------------
IsPivot(i) == ~IsNaN(zz.raw[i])

\* the last pivot before bar i (bar 1 is always one)
LastPivot(i) == CHOOSE j \in 1..(i - 1) :
                    IsPivot(j) /\ \A k \in (j + 1)..(i - 1) : ~IsPivot(k)

\* C10 as claimed: zigzag(percent=0) marks every bar a pivot and the output
\* equals the close at every bar, also where the close repeats the last pivot.
C10_EveryBarPivot ==
    (zz.called /\ zz.percent = Zero) =>
        \A i \in 1..Len(close) : IsPivot(i) /\ zz.val[i] = close[i]

\* C10 as amended: zigzag(percent=0) marks a bar a pivot exactly when it is
\* the first bar or its close differs from the value of the last pivot; the
\* output equals the close at every pivot, so it equals the close at every
\* bar of a series in which no bar repeats the close of the bar before it.
C10_PivotIffCloseDiffers ==
    (zz.called /\ zz.percent = Zero) =>
        /\ Len(zz.val) = Len(close)
        /\ \A i \in 1..Len(close) :
              /\ IsPivot(i) <=> (i = 1 \/ close[i] # close[LastPivot(i)])
              /\ IsPivot(i) => zz.val[i] = close[i]
        /\ (\A i \in 2..Len(close) : close[i] # close[i - 1]) =>
              zz.val = close

\* a bar that repeats the last pivot's close is interpolated away from it,
\* next to a bar that became a pivot
C10_Witness ==
    /\ zz.called
    /\ zz.percent = Zero
    /\ \E i, j \in 2..Len(close) :
          /\ ~IsPivot(i)
          /\ zz.val[i] # close[i]
          /\ IsPivot(j)

\* C11 as claimed: zigzag(percent=100) marks only the first bar a pivot, and
\* every other bar's output is the linear interpolation between the first and
\* the last close.
C11_OnlyFirstBarPivot ==
    (zz.called /\ zz.percent = Int2F(100)) =>
        \A i \in 2..Len(close) :
            /\ ~IsPivot(i)
            /\ zz.val[i] = Add(close[1], Mul(Sub(close[Len(close)], close[1]),
                                             Rat(i - 1, Len(close) - 1)))

\* C11 as amended: zigzag(percent=100) marks a bar a pivot exactly when it is
\* the first bar or its close is less than half the value of the last pivot;
\* when only the first bar is a pivot every bar's output is the first close.
C11_PivotIffBelowHalf ==
    (zz.called /\ zz.percent = Int2F(100)) =>
        /\ Len(zz.val) = Len(close)
        /\ \A i \in 1..Len(close) :
              /\ IsPivot(i) <=>
                    (i = 1 \/ Lt(Mul(Int2F(2), close[i]), close[LastPivot(i)]))
              /\ IsPivot(i) => zz.val[i] = close[i]
        /\ (\A i \in 2..Len(close) : ~IsPivot(i)) =>
              \A i \in 1..Len(close) : zz.val[i] = close[1]

\* a rising series at 100 %: only the first bar is a pivot and the output
\* stays at the first close although the last close is higher
C11_Witness ==
    /\ zz.called
    /\ zz.percent = Int2F(100)
    /\ Len(close) >= 3
    /\ \A i \in 2..Len(close) : ~IsPivot(i)
    /\ Gt(close[Len(close)], close[1])
    /\ zz.val[Len(close)] = close[1]

\* ------------------------------------------------------------------------
\* Properties of the relative strength index
\* ------------------------------------------------------------------------
InRange(x, lo, hi) == Le(Int2F(lo), x) /\ Le(x, Int2F(hi))

C8_ShortSeriesAllUndefined ==
    (rsi.called /\ Len(close) <= rsi.n) =>
        /\ rsi.raised = "none"
        /\ Len(rsi.val) = Len(close)
        /\ \A i \in 1..Len(close) : IsNaN(rsi.val[i])

\* the clipped change of close at bar i >= 2 against the bar before it
GainAt(i) ==
    IF Gt(close[i], close[i - 1]) THEN Sub(close[i], close[i - 1]) ELSE Zero
LossAt(i) ==
    IF Lt(close[i], close[i - 1]) THEN Sub(close[i - 1], close[i]) ELSE Zero

\* C20: in relative_strength_index(n) the seed of the average gain (loss),
\* stored at the n-th bar after the first, is the simple mean of the first
\* n gains (losses): the n clipped changes of the n bars after the first
\* bar, added up and divided by n
C20_SeedIsMeanOfFirstChanges ==
    (rsi.called /\ rsi.raised = "none") =>
        /\ rsi.avg_gain[rsi.n + 1] =
              Div(SumSeq([i \in 1..rsi.n |-> GainAt(i + 1)]), Int2F(rsi.n))
        /\ rsi.avg_loss[rsi.n + 1] =
              Div(SumSeq([i \in 1..rsi.n |-> LossAt(i + 1)]), Int2F(rsi.n))

\* C21: in relative_strength_index(n), at every bar after the seed bar the
\* average gain and the average loss follow the recursion
\* avg[i] = ((n-1) * avg[i-1] + value[i]) / n with value[i] the clipped
\* change of the bar, and both averages are >= 0 at every bar
C21_AveragesFollowRecursion ==
    (rsi.called /\ rsi.raised = "none") =>
        /\ \A i \in (rsi.n + 2)..Len(close) :
              /\ rsi.avg_gain[i] =
                    Div(Add(Mul(Int2F(rsi.n - 1), rsi.avg_gain[i - 1]),
                            GainAt(i)), Int2F(rsi.n))
              /\ rsi.avg_loss[i] =
                    Div(Add(Mul(Int2F(rsi.n - 1), rsi.avg_loss[i - 1]),
                            LossAt(i)), Int2F(rsi.n))
        /\ \A i \in 1..Len(close) :
              /\ Ge(rsi.avg_gain[i], Zero)
              /\ Ge(rsi.avg_loss[i], Zero)

\* a call with n >= 2 and two bars after the seed bar, a gain at one of
\* them and a loss at the other, both averages positive at the last bar
C21_Witness ==
    /\ rsi.called
    /\ rsi.raised = "none"
    /\ rsi.n >= 2
    /\ Len(close) >= rsi.n + 3
    /\ Gt(GainAt(Len(close) - 1), Zero)
    /\ Gt(LossAt(Len(close)), Zero)
    /\ Gt(rsi.avg_gain[Len(close)], Zero)
    /\ Gt(rsi.avg_loss[Len(close) - 1], Zero)

\* ------------------------------------------------------------------------
\* Properties of the parabolic SAR
\* ------------------------------------------------------------------------
\* C9: the two series of parabolic_sar() are aligned with the input; at every
\* bar after the first exactly one of them receives the bar's stop - rising
\* when the trend flag at the start of the bar is rising, falling otherwise -
\* and the other is exactly 0 there; the value written is finite.
C9_OnePhasePerBar ==
    (psar.pc # "idle") =>
        /\ Len(psar.r_sar) = Len(high)
        /\ Len(psar.f_sar) = Len(high)
        /\ psar.r_sar[1] = Zero /\ psar.f_sar[1] = Zero
        /\ \A i \in 2..(psar.i - 1) :
              LET bar == psar.trace[i - 1]
                  active == IF bar.up THEN psar.r_sar[i] ELSE psar.f_sar[i]
                  other == IF bar.up THEN psar.f_sar[i] ELSE psar.r_sar[i]
              IN  /\ active = bar.sar
                  /\ IsFinite(active)
                  /\ other = Zero
        /\ psar.pc = "done" => psar.i = Len(high) + 1

\* a finished call that wrote a nonzero stop in each of the two phases
C9_Witness ==
    /\ psar.pc = "done"
    /\ \E i, j \in 2..Len(high) :
          /\ psar.trace[i - 1].up /\ psar.r_sar[i] # Zero
          /\ ~psar.trace[j - 1].up /\ psar.f_sar[j] # Zero

\* the step of parabolic_sar() that runs the loop body for one bar
SarBarStep == psar.pc = "loop" /\ psar'.pc = "loop" /\ psar'.i = psar.i + 1

\* the extreme point, the factor and the stop the last bar was computed with
LastBar(st) == st.trace[Len(st.trace)]

\* C22: in parabolic_sar() the acceleration factor used at a bar is the
\* carried factor plus the phase's step (capped at the phase's maximum)
\* only at the bars whose high (rising) or low (falling) lies strictly
\* beyond the carried extreme point, and the carried factor itself at every
\* other bar, a bar whose high or low equals the extreme point included;
\* the factor used never exceeds the phase's maximum
C22_FactorGrowsOnlyOnNewExtreme ==
    [][SarBarStep =>
        LET i == psar.i
            step == IF psar.up THEN psar.step_r ELSE psar.step_f
            max_af == IF psar.up THEN psar.max_af_r ELSE psar.max_af_f
            updated == IF psar.up THEN Gt(high[i], psar.ep)
                       ELSE Lt(low[i], psar.ep)
        IN  /\ LastBar(psar').af =
                  (IF updated THEN FMin(Add(psar.af, step), max_af)
                   ELSE psar.af)
            /\ Le(LastBar(psar').af, max_af)]_vars

\* C23: in parabolic_sar() the trend flips from rising to falling at the
\* end of exactly the bars where the stop just computed is above the bar's
\* low or high, and from falling to rising at exactly the bars where it is
\* below the bar's low or high; at a flip the stop becomes the extreme point
\* of that bar and the factor the step of the new phase; at a bar without a
\* flip the direction, the stop and the factor of the bar are carried on
C23_FlipExactlyOnCrossing ==
    [][SarBarStep =>
        LET i == psar.i
            bar == LastBar(psar')
            down == psar.up /\ (Gt(bar.sar, low[i]) \/ Gt(bar.sar, high[i]))
            rise == ~psar.up /\ (Lt(bar.sar, low[i]) \/ Lt(bar.sar, high[i]))
        IN  /\ (psar'.up # psar.up) <=> (down \/ rise)
            /\ down => (/\ ~psar'.up
                         /\ psar'.sar = bar.ep
                         /\ psar'.af = psar.step_f)
            /\ rise => (/\ psar'.up
                         /\ psar'.sar = bar.ep
                         /\ psar'.af = psar.step_r)
            /\ ~(down \/ rise) => (/\ psar'.sar = bar.sar
                                    /\ psar'.af = bar.af)]_vars

\* a call whose trend went rising, falling, rising over three bars and
\* whose two phases have different steps
C23_Witness ==
    /\ psar.pc = "done"
    /\ psar.step_r # psar.step_f
    /\ Len(psar.trace) >= 3
    /\ psar.trace[1].up
    /\ ~psar.trace[2].up
    /\ psar.trace[3].up

\* the tunables lie in [0, 1]
UnitParams(st) ==
    \A v \in {st.step_r, st.step_f, st.max_af_r, st.max_af_f} :
       Ge(v, Zero) /\ Le(v, One)

\* C28: in parabolic_sar() with steps and maximum accelerations in [0, 1]
\* and high >= low at every bar, the state carried out of every bar (and
\* into the first) has SAR <= EP while rising and SAR >= EP while falling
C28_StopBehindExtreme ==
    (/\ psar.pc \in {"loop", "done"}
     /\ UnitParams(psar)
     /\ \A i \in 1..Len(high) : Ge(high[i], low[i])) =>
        IF psar.up THEN Le(psar.sar, psar.ep) ELSE Ge(psar.sar, psar.ep)

\* a call that has flipped to falling and then moved the stop part of the
\* way down to a new, lower extreme
C28_Witness ==
    /\ psar.pc = "loop"
    /\ UnitParams(psar)
    /\ ~psar.up
    /\ Len(psar.trace) >= 2
    /\ ~LastBar(psar).up
    /\ Gt(psar.sar, psar.ep)
    /\ Lt(psar.ep, high[1])

\* ------------------------------------------------------------------------
\* Properties of the statistics aggregator
\* ------------------------------------------------------------------------
TierMetrics(k) ==
    CASE k = 1 -> Tier1Metrics
      [] k = 2 -> Tier2Metrics
      [] k = 3 -> Tier3Metrics
      [] k = 4 -> Tier4Metrics
      [] k = 5 -> Tier5Metrics
      [] OTHER -> Tier6Metrics

\* the data-sufficiency threshold of a tier, taken by itself: 4 daily
\* returns, 2 / 3 / 4 monthly returns, 2 / 4 yearly returns
ThresholdMet(k) ==
    CASE k = 1 -> Len(calc_returns(close)) >= 4
      [] k = 2 -> Len(calc_returns(monthly_price(close, idx))) >= 2
      [] k = 3 -> Len(calc_returns(monthly_price(close, idx))) >= 3
      [] k = 4 -> Len(calc_returns(monthly_price(close, idx))) >= 4
      [] k = 5 -> Len(calc_returns(yearly_price(close, idx))) >= 2
      [] OTHER -> Len(calc_returns(yearly_price(close, idx))) >= 4

\* C3: calc_stats() completes without raising for every valid price series
\* of at least one bar, a flat series and an increasing series included: no
\* call ever ends in an exception.
C3_CalcStatsNeverRaises == cs.raised = "none"

\* C4: for a series of exactly 3 bars calc_stats() returns a report where
\* every metric is NaN, the return table is empty, and only name, start, end,
\* market_cap and the risk-free rate carry values.
C4_ThreeBarsAllUndefined ==
    (Len(close) = 3 /\ cs.pc # "idle") =>
        /\ cs.pc = "done"
        /\ cs.raised = "none"
        /\ \A f \in Metrics : IsNaN(stats[f])
        /\ stats.return_table = {}
        /\ stats.name = "asset"
        /\ stats.start = idx[1]
        /\ stats.end = idx[3]
        /\ stats.market_cap = One
        /\ stats.yearly_risk_free_return = cs.rf

\* calc_stats() has returned the report of a 3-bar series with a fall in it
C4_Witness ==
    /\ Len(close) = 3
    /\ cs.pc = "done"
    /\ stats.built
    /\ Lt(close[3], close[1])

\* C5: the tiers of calc_stats() are cumulative.  Whenever tier k has been
\* computed every tier j < k has been computed too (and the first metric of
\* the daily, monthly and yearly blocks then carries a number); and a step of
\* a running call never changes a metric of a tier computed before it.
C5_TiersCumulative ==
    /\ [](/\ \A k \in cs.tiers : \A j \in 1..k : j \in cs.tiers
          /\ 1 \in cs.tiers => IsNum(stats.total_return)
          /\ 2 \in cs.tiers => IsNum(stats.monthly_mean)
          /\ 5 \in cs.tiers => IsNum(stats.yearly_mean))
    /\ [][cs.tiers \subseteq cs'.tiers =>
             \A k \in cs.tiers : \A f \in TierMetrics(k) : stats'[f] = stats[f]]_vars

\* a call that stopped after the three-month tier: tiers 1 to 3 computed and
\* the daily and monthly metrics in place, the metrics of tier 4 undefined
C5_Witness ==
    /\ cs.pc = "done"
    /\ cs.tiers = {1, 2, 3}
    /\ IsNum(stats.daily_mean)
    /\ IsNum(stats.monthly_mean)
    /\ IsNum(stats.best_month)
    /\ IsNaN(stats.six_month)

\* C6 (as stated): every metric of a tier whose threshold is not met is NaN,
\* in particular every tier-5 metric, ytd included, when the series has fewer
\* than 2 yearly returns.
C6_UnmetTiersUndefined ==
    \A k \in 1..6 :
        ~ThresholdMet(k) => \A f \in TierMetrics(k) : IsNaN(stats[f])

\* C6 (amended): every metric of a tier whose threshold is not met is NaN,
\* except ytd: with fewer than 2 yearly returns ytd carries whatever
\* total_return carries - the total return once the daily tier has run, NaN
\* below the daily threshold.
C6_UnmetTiersUndefinedExceptYtd ==
    /\ \A k \in 1..6 :
          ~ThresholdMet(k) =>
              \A f \in TierMetrics(k) \ {"ytd"} : IsNaN(stats[f])
    /\ ~ThresholdMet(5) => stats.ytd = stats.total_return

\* a finished call on a series inside one calendar year: ytd is a number
\* while the other yearly metrics are undefined
C6_Witness ==
    /\ cs.pc = "done"
    /\ 1 \in cs.tiers
    /\ ~ThresholdMet(5)
    /\ IsNum(stats.ytd)
    /\ IsNaN(stats.one_year)
    /\ IsNaN(stats.yearly_mean)

\* C19 as claimed: a call of calc_stats() that returns computes the yearly
\* tier whenever the series has at least 4 daily and at least 2 yearly
\* returns, however many monthly returns it has
C19_YearlyTierIgnoresMonths ==
    (cs.pc = "done" /\ ThresholdMet(1) /\ ThresholdMet(5)) => 5 \in cs.tiers

\* C19 as amended: a call of calc_stats() that returns has computed the
\* yearly tier exactly when the series has at least 4 daily, at least 4
\* monthly and at least 2 yearly returns; with fewer than 4 monthly returns
\* every metric of the yearly tier but ytd (set at line 275) is undefined
C19_YearlyTierNeedsFourMonths ==
    cs.pc = "done" =>
        /\ 5 \in cs.tiers
              <=> (ThresholdMet(1) /\ ThresholdMet(4) /\ ThresholdMet(5))
        /\ 5 \in cs.tiers => IsNum(stats.yearly_mean)
        /\ ~ThresholdMet(4) =>
              \A f \in Tier5Metrics \ {"ytd"} : IsNaN(stats[f])

\* a series over a year boundary with 4 daily returns and 2 yearly returns
\* but fewer than 4 monthly ones: the call returned after the monthly tier
C19_Witness ==
    /\ cs.pc = "done"
    /\ ThresholdMet(1)
    /\ ThresholdMet(5)
    /\ ~ThresholdMet(4)
    /\ 2 \in cs.tiers
    /\ 5 \notin cs.tiers
    /\ IsNum(stats.monthly_mean)
    /\ IsNaN(stats.yearly_mean)

\* ------------------------------------------------------------------------
\* Properties of the construction
\* ------------------------------------------------------------------------
\* price data as the specification wants it: timestamps strictly increasing,
\* no bar with high < low, no negative volume
WellFormed ==
    /\ \A i \in 1..(Len(idx) - 1) : DateLt(idx[i], idx[i + 1])
    /\ \A i \in 1..Len(high) : ~Lt(high[i], low[i])
    /\ \A i \in 1..Len(volume) : ~Lt(volume[i], Zero)

\* C12: malformed price data (non-monotonic timestamps, a bar with
\* high < low, negative volume) is rejected at construction: every Asset that
\* exists holds well-formed data.
C12_MalformedRejected == made => WellFormed

\* ------------------------------------------------------------------------
\* Properties of the Asset's data
\* ------------------------------------------------------------------------
\* C13: no call of drawdown, drawdown_info, parabolic_sar, zigzag,
\* relative_strength_index, money_flow_index, on_balance_volume,
\* negative_volume_index or calc_stats writes into the price data: no step
\* changes a timestamp or an open, high, low, close or volume value, so the
\* data always equals the data supplied at construction.
C13_DataNeverWritten == [][dataVars' = dataVars]_vars

\* on_balance_volume() was called on a series with a falling close (the bars
\* its masks write to) and calc_stats() ran to the end of its daily block
C13_Witness ==
    /\ made
    /\ ind.op = "obv"
    /\ \E i \in 2..Len(close) : Lt(close[i], close[i - 1])
    /\ cs.pc = "done"
    /\ 1 \in cs.tiers

\* ------------------------------------------------------------------------
\* Properties of concurrent calls
\* ------------------------------------------------------------------------
\* the report carries the argument of the call and every block the call ran:
\* what holds of the report of every call that runs alone
ReportOf(call) ==
    /\ stats.yearly_risk_free_return = call.rf
    /\ 1 \in call.tiers =>
          /\ IsNum(stats.total_return)
          /\ stats.daily_sharpe =
                Sharpe(stats.daily_mean,
                       PeriodRiskFree(call.rf, DAYS_IN_TRADING_YEAR),
                       stats.daily_vol)
    /\ 2 \in call.tiers =>
          /\ IsNum(stats.monthly_mean)
          /\ stats.monthly_sharpe =
                Sharpe(stats.monthly_mean,
                       PeriodRiskFree(call.rf, MONTHS_IN_YEAR),
                       stats.monthly_vol)
    /\ 5 \in call.tiers =>
          /\ IsNum(stats.yearly_mean)
          /\ stats.yearly_sharpe =
                Sharpe(stats.yearly_mean, call.rf, stats.yearly_vol)

\* C14: two calc_stats() calls with different risk-free rates running
\* concurrently on one Asset do not write into each other's report: when a
\* call returns, the report is the one that call produces alone - it carries
\* that call's rate, its Sharpe ratios use that rate, and the blocks the call
\* ran are in it.
C14_CallsIsolated == cs.pc = "done" => ReportOf(cs)

\* ------------------------------------------------------------------------
\* Properties of repeated calls of calc_stats
\* ------------------------------------------------------------------------
\* the fields of the report that the risk-free rate enters
RateFields == {"yearly_risk_free_return", "daily_sharpe", "monthly_sharpe",
               "yearly_sharpe"}

\* C15: the report is built fresh on each call of calc_stats(): the step
\* that starts a call replaces whatever report the Asset held by one with
\* every metric undefined and the rate of this call; a call that returned
\* after an earlier call with the same rate gives a report equal to the one
\* the caller kept, and after an earlier call with another rate a report
\* that differs from it in the rate-dependent fields at most; the tiers the
\* call did not reach are undefined in it (ytd, line 275, excepted)
C15_ReportBuiltFresh ==
    /\ [][(cs.pc = "idle" /\ cs'.pc # "idle")
            => stats' = EmptyStats(idx, cs'.rf)]_vars
    /\ [](cs.pc = "done" /\ kept.called =>
            /\ \A f \in (DOMAIN stats) \ RateFields :
                   stats[f] = kept.report[f]
            /\ cs.rf = kept.rf => stats = kept.report
            /\ \A k \in (1..6) \ cs.tiers :
                   \A f \in TierMetrics(k) \ {"ytd"} : IsNaN(stats[f]))

\* a second call, with another rate than the call before it, returned after
\* the monthly tier
C15_Witness ==
    /\ cs.pc = "done"
    /\ kept.called
    /\ cs.rf # kept.rf
    /\ 2 \in cs.tiers
    /\ IsNum(kept.report.daily_mean)
    /\ stats # kept.report

\* ------------------------------------------------------------------------
\* Properties of the return table
\* ------------------------------------------------------------------------
\* the entries of table t under year y and month m
EntriesAt(t, y, m) == {e \in t : e.year = y /\ e.month = m}

\* (1 + r_1) * ... * (1 + r_m) over the months 1..m that year y has in t
RECURSIVE YearProduct(_, _, _)
YearProduct(t, y, m) ==
    IF m = 0 THEN One
    ELSE IF EntriesAt(t, y, m) = {} THEN YearProduct(t, y, m - 1)
    ELSE Mul(YearProduct(t, y, m - 1),
             Add((CHOOSE e \in EntriesAt(t, y, m) : TRUE).ret, One))

\* C16: once the monthly tier of calc_stats() is computed the return table
\* holds one entry per monthly return, under the year and the month (1..12)
\* of that return, and after the first month the entry is the monthly
\* return itself; every year of the table has under month 13 one entry, the
\* compounded product of the year's entries of months 1..12 minus one
C16_YearSlotCompounds ==
    2 \in cs.tiers =>
        LET t == stats.return_table
            mr == calc_returns(monthly_price(close, idx))
        IN  /\ \A e \in t : e.month \in 1..13
            /\ \A e \in t : Cardinality(EntriesAt(t, e.year, e.month)) = 1
            /\ Cardinality({e \in t : e.month <= MONTHS_IN_YEAR}) = Len(mr)
            /\ \A k \in 2..Len(mr) :
                   \E e \in EntriesAt(t, MonthLabel(idx, k).y,
                                       MonthLabel(idx, k).m) : e.ret = mr[k]
            /\ \A y \in {e.year : e \in t} :
                   \E e \in EntriesAt(t, y, MONTHS_IN_YEAR + 1) :
                      e.ret = Sub(YearProduct(t, y, MONTHS_IN_YEAR), One)

\* a table with a year of at least two months whose compounded return is a
\* number other than zero
C16_Witness ==
    /\ 2 \in cs.tiers
    /\ \E e \in stats.return_table :
          /\ e.month = MONTHS_IN_YEAR + 1
          /\ IsNum(e.ret)
          /\ e.ret # Zero
          /\ Cardinality({x \in stats.return_table : x.year = e.year}) >= 3

\* ------------------------------------------------------------------------
\* Properties of the episodes of drawdown_info
\* ------------------------------------------------------------------------
\* bar i has a drawdown other than 0
InDrawdown(i) == ~Eq(drawdown(close)[i], Zero)

\* the first bars of the maximal runs of bars in drawdown
RunStarts ==
    {i \in 1..Len(close) : InDrawdown(i) /\ (i = 1 \/ ~InDrawdown(i - 1))}

\* the first bar after the run starting at bar s where the drawdown is back
\* at 0, the last bar when the series ends inside the run
RunEnd(s) ==
    LET back == {j \in (s + 1)..Len(close) : ~InDrawdown(j)}
    IN  IF back = {} THEN Len(close)
        ELSE CHOOSE j \in back : \A k \in back : j <= k

\* C17: drawdown_info() returns a table with exactly one row per maximal
\* run of bars with non-zero drawdown: as many rows as runs, each run's
\* first bar the start of a row and that row's end the first bar after the
\* run with drawdown 0, or the last bar when the series ends inside the run
C17_OneEpisodePerRun ==
    ddinfo.called =>
        /\ ddinfo.raised = "none"
        /\ Len(ddinfo.start) = Cardinality(RunStarts)
        /\ \A s \in RunStarts :
              \E r \in 1..Len(ddinfo.start) :
                 /\ ddinfo.start[r] = idx[s]
                 /\ ddinfo.end[r] = idx[RunEnd(s)]

\* the bar of a date of the index
BarOf(date) == CHOOSE i \in 1..Len(idx) : idx[i] = date

\* the lowest drawdown among the bars ps, missing values left out; NaN when
\* no bar of ps has a value
MinOfBars(ps) ==
    LET d == drawdown(close)
        ok == {p \in ps : ~IsNaN(d[p])}
    IN  IF ok = {} THEN NaN
        ELSE d[CHOOSE p \in ok : \A q \in ok : Le(d[p], d[q])]

HighBarsUpTo(i, n) ==
    {j \in 1..i : \A k \in 1..j : k > j - n => Le(high[k], high[j])}
LowBarsUpTo(i, n) ==
    {j \in 1..i : \A k \in 1..j : k > j - n => Le(low[j], low[k])}

\* the number of bars from the last bar of E to bar i, at most n
BarsSince(E, i, n) ==
    LET last_one == CHOOSE j \in E : \A k \in E : k <= j
    IN  IF i - last_one > n THEN n ELSE i - last_one

\* C24: in aroon(n) the days-since-high of every bar is the number of bars
\* since the most recent bar whose high equals the n-period rolling high,
\* at most n and 0 at such a bar, also after the last rolling high of the
\* series; the same for days-since-low with the rolling low
C24_DaysSinceCountsBars ==
    trend.op = "aroon" =>
        \A i \in 1..Len(high) :
           /\ trend.days_since_high[i]
                 = BarsSince(HighBarsUpTo(i, trend.n), i, trend.n)
           /\ trend.days_since_low[i]
                 = BarsSince(LowBarsUpTo(i, trend.n), i, trend.n)

\* C25: at every bar of aroon(n) the days-since-high and the days-since-low
\* lie in 0..n, Aroon-up and Aroon-down lie in [0, 100], and the oscillator
\* is up - down and lies in [-100, 100]
C25_AroonInRange ==
    trend.op = "aroon" =>
        \A i \in 1..Len(high) :
           /\ trend.days_since_high[i] \in 0..trend.n
           /\ trend.days_since_low[i] \in 0..trend.n
           /\ InRange(trend.up[i], 0, 100)
           /\ InRange(trend.down[i], 0, 100)
           /\ Add(trend.oscillator[i], trend.down[i]) = trend.up[i]
           /\ InRange(trend.oscillator[i], -100, 100)

\* a call with a bar where Aroon-up is strictly between 0 and 100 and the
\* oscillator is negative
C25_Witness ==
    /\ trend.op = "aroon"
    /\ trend.n >= 2
    /\ \E j \in 1..Len(high) :
          /\ trend.days_since_high[j] \in 1..(trend.n - 1)
          /\ Gt(trend.up[j], Zero) /\ Lt(trend.up[j], Int2F(100))
          /\ Lt(trend.oscillator[j], Zero)

\* ------------------------------------------------------------------------
\* Properties of the drawdown summary of calc_stats
\* ------------------------------------------------------------------------
\* the close series has a bar in drawdown
HasDrawdown == \E i \in 1..Len(close) : InDrawdown(i)

\* the lowest drawdown of the whole series
DeepestBar == MinOfBars(1..Len(close))

\* C29 as claimed: whenever the close series has a bar in drawdown, the
\* max_drawdown of the report calc_stats() returns is the lowest value of
\* drawdown() over all bars
C29_MaxDrawdownIsDeepestBar ==
    (cs.pc = "done" /\ HasDrawdown) => stats.max_drawdown = DeepestBar

\* C29: whenever the close series has a bar in drawdown and calc_stats()
\* has computed the daily tier (at least 4 daily returns), max_drawdown is
\* the lowest value of drawdown() over all bars; a call that returns before
\* the daily tier leaves max_drawdown undefined
C29_MaxDrawdownOfDailyTier ==
    HasDrawdown =>
        /\ 1 \in cs.tiers => stats.max_drawdown = DeepestBar
        /\ (cs.pc = "done" /\ 1 \notin cs.tiers) => IsNaN(stats.max_drawdown)

\* a report with the daily tier for a series with two runs of drawdown, the
\* second one still open at the last bar
C29_Witness ==
    /\ cs.pc = "done"
    /\ 1 \in cs.tiers
    /\ Cardinality(RunStarts) >= 2
    /\ InDrawdown(Len(close))
    /\ Lt(stats.max_drawdown, Zero)
    /\ stats.max_drawdown = DeepestBar

\* ------------------------------------------------------------------------
\* Properties of on_balance_volume
\* ------------------------------------------------------------------------
\* the volume of bar i >= 2 signed by the move of the close: added when the
\* close rose, subtracted when it fell, nothing when it did not move
SignedVolume(i) ==
    IF Gt(close[i], close[i - 1]) THEN volume[i]
    ELSE IF Lt(close[i], close[i - 1]) THEN Neg(volume[i])
    ELSE Zero

\* C30: on_balance_volume() is a running total: the value of every bar
\* after the first is the value of the bar before plus the bar's volume
\* when the close rose, minus it when the close fell, and the value of the
\* bar before when the close did not move
C30_ObvIsRunningTotal ==
    ind.op = "obv" =>
        \A i \in 2..Len(close) :
           ind.val[i] = Add(ind.val[i - 1], SignedVolume(i))

\* ------------------------------------------------------------------------
\* Properties of the average directional index
\* ------------------------------------------------------------------------
\* C26: average_directional_index(n) is a recursive smoothing of DX: at
\* every bar where the ADX of the bar before and the DX of the bar are
\* numbers, adx[i] = ((n-1) * adx[i-1] + dx[i]) / n
C26_AdxIsRecursive ==
    trend.op = "adx" =>
        \A i \in 2..Len(high) :
           (IsNum(trend.adx[i - 1]) /\ IsNum(trend.dx[i])) =>
              trend.adx[i] =
                 Div(Add(Mul(Int2F(trend.n - 1), trend.adx[i - 1]),
                         trend.dx[i]), Int2F(trend.n))

\* the up-move and the down-move of bar i >= 2
UpAt(i) == Sub(high[i], high[i - 1])
DownAt(i) == Sub(low[i - 1], low[i])

\* C27: in average_directional_index() at most one of +DM and -DM is
\* nonzero at every bar: +DM is the up-move where the up-move exceeds the
\* down-move and 0 elsewhere, -DM is the down-move where the down-move
\* exceeds the up-move and 0 elsewhere, so both are 0 where the moves are
\* equal (and at the first bar, which has no move)
C27_OneDirectionPerBar ==
    trend.op = "adx" =>
        /\ trend.pdm[1] = Zero /\ trend.ndm[1] = Zero
        /\ \A i \in 2..Len(high) :
              /\ trend.pdm[i] = Zero \/ trend.ndm[i] = Zero
              /\ trend.pdm[i] = (IF Gt(UpAt(i), DownAt(i)) THEN UpAt(i)
                                 ELSE Zero)
              /\ trend.ndm[i] = (IF Gt(DownAt(i), UpAt(i)) THEN DownAt(i)
                                 ELSE Zero)
              /\ UpAt(i) = DownAt(i) =>
                    (trend.pdm[i] = Zero /\ trend.ndm[i] = Zero)

\* a call on a series with a bar where both moves are positive and the
\* up-move dominates, and a bar where the two moves are equal and not zero
C27_Witness ==
    /\ trend.op = "adx"
    /\ \E i, k \in 2..Len(high) :
          /\ Gt(DownAt(i), Zero) /\ Gt(trend.pdm[i], Zero)
          /\ UpAt(k) = DownAt(k) /\ UpAt(k) # Zero

====
